---- MODULE Spec2Model ----
(***************************************************************************)
(* meshcli: nearby-node discovery (src/meshcli/discover.py) and the        *)
(* connection helper it uses (src/meshcli/connection.py).                  *)
(*                                                                         *)
(* Two threads are modelled.  The controller thread runs                   *)
(* NearbyNodeDiscoverer.discover_nearby_nodes, one action per statement    *)
(* group, with pc naming the statement about to run.  The transport        *)
(* thread delivers packets to NearbyNodeDiscoverer.on_traceroute_response  *)
(* through the publish-subscribe bus; the handler is two steps, the gate   *)
(* on discovery_active (lines 45-46) and the body (lines 48-103), because  *)
(* the controller can run between them.                                    *)
(*                                                                         *)
(* Python values: a dict is a record whose DOMAIN is the set of keys that  *)
(* are present; an optional scalar (None, or the "Unknown" default) is     *)
(* the empty tuple and a present value v is <<v>>; a float number of dB is *)
(* an integer number of hundredths of a dB.                                *)
(*                                                                         *)
(* Spec is the session with its two threads; FairSpec is the session with  *)
(* the controller thread kept running, for termination; UnitSpec calls     *)
(* the methods of the class directly on given node tables and packets;     *)
(* LiveSpec is the resolver with the transport updating its node table     *)
(* after the snapshot; CommandSpec is the discover command, one call on a  *)
(* discoverer built from the command's options; DetectSpec calls           *)
(* detect_interface_type on an address; ListSpec is                        *)
(* NodeLister.show_known_nodes of src/meshcli/list_nodes.py.               *)
(***************************************************************************)
EXTENDS Integers, Sequences, FiniteSets, TLC

(***************************************************************************)
(* Bounds of the model.                                                    *)
(***************************************************************************)
\* invocations of discover_nearby_nodes on the one instance
MaxCalls == 2
\* packets the transport delivers over the whole run
MaxMsgs == 2
\* longest listen duration, in polls of 0.5 s
MaxTicks == 1
\* entries of a node table given to the methods called directly
MaxTable == 3
\* records collected from packets handed to the handler directly
MaxRecords == 1
\* invocations in the runs checked for termination
MaxFairCalls == 1
\* changes of the transport's node table after the snapshot was taken
MaxUpdates == 1
\* length of the addresses made of every character of a small alphabet
MaxAddress == 3

(***************************************************************************)
(* Python values.                                                          *)
(***************************************************************************)
None == <<>>

Some(v) == <<v>>

\* dict.get(key, default)
Get(d, key, default) == IF key \in DOMAIN d THEN d[key] ELSE default

\* a device_path of None (an address is a tuple of one-character strings)
NoAddress == <<"None">>

HexDigit(d) == <<"0","1","2","3","4","5","6","7","8","9","a","b","c","d","e","f">>[d + 1]

\* f"{n:08x}"
Hex8(n) ==
    HexDigit((n \div 268435456) % 16) \o HexDigit((n \div 16777216) % 16)
        \o HexDigit((n \div 1048576) % 16) \o HexDigit((n \div 65536) % 16)
        \o HexDigit((n \div 4096) % 16) \o HexDigit((n \div 256) % 16)
        \o HexDigit((n \div 16) % 16) \o HexDigit(n % 16)

\* f"!{n:08x}"
NodeIdOf(n) == "!" \o Hex8(n)

(***************************************************************************)
(* connection.py: detect_interface_type.                                   *)
(***************************************************************************)
Digits == {"0","1","2","3","4","5","6","7","8","9"}

Letters ==
    {"a","b","c","d","e","f","g","h","i","j","k","l","m",
     "n","o","p","q","r","s","t","u","v","w","x","y","z",
     "A","B","C","D","E","F","G","H","I","J","K","L","M",
     "N","O","P","Q","R","S","T","U","V","W","X","Y","Z"}

\* address.startswith(prefix)
StartsWith(a, prefix) ==
    /\ Len(a) >= Len(prefix)
    /\ SubSeq(a, 1, Len(prefix)) = prefix

\* re.match(r"^\d{1,3}(\.\d{1,3}){3}$", address)
MatchesIPv4(a) ==
    LET dots == {i \in 1..Len(a) : a[i] = "."}
    IN  /\ Cardinality(dots) = 3
        /\ \A i \in (1..Len(a)) \ dots : a[i] \in Digits
        /\ \A i \in dots \cup {Len(a) + 1} :
              LET before == {j \in dots \cup {0} : j < i}
                  prev == CHOOSE j \in before : \A k \in before : k <= j
              IN  (i - prev - 1) \in 1..3

\* re.match(r"^[a-zA-Z0-9\-\.]+$", address)
MatchesHostname(a) ==
    /\ Len(a) >= 1
    /\ \A i \in 1..Len(a) : a[i] \in Letters \cup Digits \cup {"-", "."}

\* the address has no startswith: AttributeError at connection.py line 11
DetectRaises(address) == address = NoAddress

DetectInterfaceType(address) ==
    IF StartsWith(address, <<"/","d","e","v","/">>) THEN "serial"
    ELSE IF MatchesIPv4(address) \/ (\E i \in 1..Len(address) : address[i] = ":") THEN "tcp"
    ELSE IF MatchesHostname(address) THEN "tcp"
    ELSE "ble"

(***************************************************************************)
(* The transport's node table, interface.nodesByNum: a dict in insertion   *)
(* order, here a sequence of [node_num, node]; the empty sequence is the   *)
(* table that is None or empty (both falsy at lines 108 and 222).          *)
(***************************************************************************)
\* interface.localNode.nodeNum
LocalNum == 17

NodeLocal == [node_num |-> 17, node |-> [user |-> [id |-> "!00000011", longName |-> "Base", shortName |-> "BS"]]]

NodeAlpha ==
    [node_num |-> 168496141,
     node |-> [user |-> [id |-> "!0a0b0c0d", longName |-> "Alpha Base", shortName |-> "AB"],
               hopsAway |-> 0]]

\* a peer the transport knows by number only
NodeBare == [node_num |-> 269, node |-> [hopsAway |-> 0]]

NodeFar == [node_num |-> 525, node |-> [user |-> [id |-> "!0000020d", longName |-> "Far"], hopsAway |-> 2]]

Tables == {<<>>, <<NodeLocal, NodeAlpha, NodeBare, NodeFar>>}

\* the local node as a table lists it when it carries a hop count
NodeLocalDirect ==
    [node_num |-> 17,
     node |-> [user |-> [id |-> "!00000011", longName |-> "Base", shortName |-> "BS"],
               hopsAway |-> 0]]

\* a peer with a short name only and no hop count
NodeQuiet == [node_num |-> 781, node |-> [user |-> [id |-> "!0000030d", shortName |-> "QT"]]]

NodePool == {NodeLocal, NodeLocalDirect, NodeAlpha, NodeBare, NodeFar, NodeQuiet}

\* the node tables of at most MaxTable entries: a dict, so no node_num twice
TableInputs ==
    {t \in UNION {[1..n -> NodePool] : n \in 0..MaxTable} :
        \A i, j \in 1..Len(t) : i # j => t[i].node_num # t[j].node_num}

\* relay bytes: the low byte of the peers, of the local node, of no node
RelayBytes == {13, 17, 0}

\* node ids asked of format_node_display
DisplayIds == {"!0a0b0c0d", "!0000010d", "!0000020d", "!0000030d", "!00000011", "!ffffffff"}

\* known_nodes[node_id] = info (a dict keeps the position of a key it already holds)
DictPut(d, entry) ==
    IF \E i \in 1..Len(d) : d[i].id = entry.id
    THEN [i \in 1..Len(d) |-> IF d[i].id = entry.id THEN entry ELSE d[i]]
    ELSE Append(d, entry)

RECURSIVE KnownFrom(_, _, _)
KnownFrom(table, localNum, known) ==
    IF table = <<>> THEN known
    ELSE LET e == Head(table)
             user == Get(e.node, "user", [x \in {} |-> ""])
             info == [id |-> Get(user, "id", NodeIdOf(e.node_num)),
                      long_name |-> Get(user, "longName", ""),
                      short_name |-> Get(user, "shortName", ""),
                      node_num |-> e.node_num]
         IN  IF e.node_num = localNum
             THEN KnownFrom(Tail(table), localNum, known)
             ELSE KnownFrom(Tail(table), localNum, DictPut(known, info))

\* the snapshot with the entry of the local node kept
GetKnownNodesUnfiltered(table, localNum) == KnownFrom(table, 0 - 1, <<>>)

\* get_known_nodes: the registry snapshot, a dict from node id
GetKnownNodes(table, localNum) == KnownFrom(table, localNum, <<>>)

\* node_id in known_nodes
KnownHas(known, node_id) == \E i \in 1..Len(known) : known[i].id = node_id

KnownAt(known, node_id) == known[CHOOSE i \in 1..Len(known) : known[i].id = node_id]

\* the long name alone whenever there is one
FormatNodeDisplayLongOnly(node_id, known) ==
    IF KnownHas(known, node_id) /\ KnownAt(known, node_id).long_name # ""
    THEN KnownAt(known, node_id).long_name
    ELSE node_id

\* format_node_display
FormatNodeDisplay(node_id, known) ==
    IF KnownHas(known, node_id)
    THEN LET short == KnownAt(known, node_id).short_name
             long_name == KnownAt(known, node_id).long_name
         IN  IF short # "" /\ long_name # "" THEN "[" \o short \o "] " \o long_name
             ELSE IF long_name # "" THEN long_name
             ELSE IF short # "" THEN "[" \o short \o "]"
             ELSE node_id
    ELSE node_id

\* node_num & 0xFF
LowByte(n) == n % 256

RECURSIVE CandidatesFrom(_, _, _, _)
CandidatesFrom(table, localNum, known, relay_node_last_byte) ==
    IF table = <<>> THEN <<>>
    ELSE LET e == Head(table)
             rest == CandidatesFrom(Tail(table), localNum, known, relay_node_last_byte)
             user == Get(e.node, "user", [x \in {} |-> ""])
             node_id == Get(user, "id", NodeIdOf(e.node_num))
         IN  IF /\ e.node_num # localNum
                /\ "hopsAway" \in DOMAIN e.node
                /\ e.node.hopsAway = 0
                /\ LowByte(e.node_num) = relay_node_last_byte
             THEN <<[id |-> node_id, node_num |-> e.node_num,
                     name |-> FormatNodeDisplay(node_id, known)]>> \o rest
             ELSE rest

\* the candidates with the hop count not looked at
RECURSIVE CandidatesAnyHops(_, _, _, _)
CandidatesAnyHops(table, localNum, known, relay_node_last_byte) ==
    IF table = <<>> THEN <<>>
    ELSE LET e == Head(table)
             rest == CandidatesAnyHops(Tail(table), localNum, known, relay_node_last_byte)
             user == Get(e.node, "user", [x \in {} |-> ""])
             node_id == Get(user, "id", NodeIdOf(e.node_num))
         IN  IF e.node_num # localNum /\ LowByte(e.node_num) = relay_node_last_byte
             THEN <<[id |-> node_id, node_num |-> e.node_num,
                     name |-> FormatNodeDisplay(node_id, known)]>> \o rest
             ELSE rest

\* find_relay_candidates: reads the live table, and known_nodes for the names
FindRelayCandidates(table, localNum, known, relay_node_last_byte) ==
    CandidatesFrom(table, localNum, known, relay_node_last_byte)

(***************************************************************************)
(* Packets, as the transport hands them to the handler.                    *)
(***************************************************************************)
EmptyDict == [x \in {} |-> ""]

\* a traceroute reply of a peer of the table, with the SNR-towards series
PktAlpha ==
    [decoded |-> [portnum |-> "TRACEROUTE_APP", traceroute |-> [snrTowards |-> <<0, 48>>]],
     from |-> 168496141, fromId |-> "!0a0b0c0d", rxSnr |-> 725, rxRssi |-> -42]

\* a traceroute reply with no textual id, no signal report and a relay byte
PktBare == [decoded |-> [portnum |-> "TRACEROUTE_APP"], from |-> 269, relayNode |-> 13]

\* other traffic of the window
PktText == [decoded |-> [portnum |-> "TEXT_MESSAGE_APP"], from |-> 269, fromId |-> "!0000010d", rxSnr |-> 600]

\* a packet that was not decoded: no protocol tag
PktRaw == [from |-> 525]

Packets == {PktAlpha, PktBare, PktText, PktRaw}

\* a qualifying packet with nothing but its protocol tag
PktTagOnly == [decoded |-> [portnum |-> "TRACEROUTE_APP"]]

\* a reply heard through a relay (relay_node is the key line 60 reads)
PktRelayed ==
    [decoded |-> [portnum |-> "TRACEROUTE_APP", traceroute |-> [snrTowards |-> <<0>>]],
     from |-> 525, fromId |-> "!0000020d", rxSnr |-> -350, rxRssi |-> -97, relay_node |-> 13]

\* a reply of a peer with a short name only, with a series of three samples
PktQuiet ==
    [decoded |-> [portnum |-> "TRACEROUTE_APP", traceroute |-> [snrTowards |-> <<0, -7, 20>>]],
     from |-> 781, fromId |-> "!0000030d", rxSnr |-> 200, rxRssi |-> -80]

\* a traceroute payload with a route and no series, and one with an empty series
PktNoSeries ==
    [decoded |-> [portnum |-> "TRACEROUTE_APP", traceroute |-> [route |-> <<>>]], from |-> 269]

PktEmptySeries ==
    [decoded |-> [portnum |-> "TRACEROUTE_APP", traceroute |-> [snrTowards |-> <<>>]], from |-> 269]

\* wrongly-shaped fields: from a string, snrTowards a number, the traceroute
\* payload a number, relay_node a string, rxSnr a string
PktBadFrom ==
    [decoded |-> [portnum |-> "TRACEROUTE_APP"], fromId |-> "!0a0b0c0d", from |-> 0,
     malformed |-> {"from"}]

PktBadSeries ==
    [decoded |-> [portnum |-> "TRACEROUTE_APP", traceroute |-> [snrTowards |-> <<>>]],
     from |-> 269, malformed |-> {"snrTowards"}]

PktBadTraceroute ==
    [decoded |-> [portnum |-> "TRACEROUTE_APP", traceroute |-> EmptyDict],
     from |-> 269, malformed |-> {"traceroute"}]

PktBadRelay ==
    [decoded |-> [portnum |-> "TRACEROUTE_APP"], from |-> 269, relay_node |-> 0,
     malformed |-> {"relay_node"}]

PktBadSnr ==
    [decoded |-> [portnum |-> "TRACEROUTE_APP"], from |-> 269, rxSnr |-> 0,
     malformed |-> {"rxSnr"}]

\* the packets handed to the handler directly
UnitPackets ==
    Packets \cup {PktTagOnly, PktRelayed, PktQuiet, PktNoSeries, PktEmptySeries,
                  PktBadFrom, PktBadSeries, PktBadTraceroute, PktBadRelay, PktBadSnr}

\* packet.get("decoded", {}).get("portnum")
PortNum(packet) == Get(Get(packet, "decoded", EmptyDict), "portnum", "None")

\* any decoded packet qualifies
IsDecoded(packet) == "decoded" \in DOMAIN packet

\* line 56
IsTraceroute(packet) == PortNum(packet) = "TRACEROUTE_APP"

\* snr_towards_raw[-1] / 4.0, in hundredths of a dB
QuarterDbToDb(raw) == raw * 25

\* a series of one sample converted too
SnrTowardsAnyLength(packet) ==
    LET traceroute == Get(Get(packet, "decoded", EmptyDict), "traceroute", EmptyDict)
    IN  IF DOMAIN traceroute # {} /\ "snrTowards" \in DOMAIN traceroute
        THEN LET snr_towards_raw == traceroute["snrTowards"]
             IN  IF Len(snr_towards_raw) >= 1
                 THEN Some(QuarterDbToDb(snr_towards_raw[Len(snr_towards_raw)]))
                 ELSE None
        ELSE None

\* lines 62-69
SnrTowards(packet) ==
    LET traceroute == Get(Get(packet, "decoded", EmptyDict), "traceroute", EmptyDict)
    IN  IF DOMAIN traceroute # {} /\ "snrTowards" \in DOMAIN traceroute
        THEN LET snr_towards_raw == traceroute["snrTowards"]
             IN  IF Len(snr_towards_raw) > 1
                 THEN Some(QuarterDbToDb(snr_towards_raw[Len(snr_towards_raw)]))
                 ELSE None
        ELSE None

\* line 57
SenderId(packet) == Get(packet, "fromId", NodeIdOf(Get(packet, "from", 0)))

\* lines 93-103: the record of one response (its wall-clock timestamp is left out)
MakeRecord(packet) ==
    [id |-> SenderId(packet),
     from_num |-> IF "from" \in DOMAIN packet THEN Some(packet["from"]) ELSE None,
     snr |-> IF "rxSnr" \in DOMAIN packet THEN Some(packet["rxSnr"]) ELSE None,
     rssi |-> IF "rxRssi" \in DOMAIN packet THEN Some(packet["rxRssi"]) ELSE None,
     snr_towards |-> SnrTowards(packet),
     packet |-> packet]

\* a packet may name, under "malformed", fields whose value has another shape
\* than the transport gives them: a string for the number of from, rxSnr or
\* relay_node, a number for the traceroute dict or the snrTowards list (the
\* value then held under the field is a placeholder)
Malformed(packet) == Get(packet, "malformed", {})

\* line 60
RelayNode(packet) ==
    IF "relay_node" \in DOMAIN packet THEN Some(packet["relay_node"]) ELSE None

\* the exception the handler's body raises for a packet, "none" if it raises none:
\* line 57 formats from with 08x (its default is evaluated whether or not fromId
\* is present), line 65 tests membership in traceroute, line 67 takes the len of
\* snrTowards, line 77 formats relay_node with 02x
HandlerException(packet) ==
    IF "from" \in DOMAIN packet /\ "from" \in Malformed(packet) THEN "ValueError"
    ELSE IF "traceroute" \in Malformed(packet) THEN "TypeError"
    ELSE IF "snrTowards" \in Malformed(packet) THEN "TypeError"
    ELSE IF "relay_node" \in DOMAIN packet /\ "relay_node" \in Malformed(packet) THEN "ValueError"
    ELSE "none"

\* lines 72-86: the line echoed for a response, as the display name, the relay
\* byte and the names of the relay candidates
DiscoveryLine(packet, known, table, localNum) ==
    LET rnode == RelayNode(packet)
        candidates ==
            IF rnode = None THEN <<>>
            ELSE FindRelayCandidates(table, localNum, known, rnode[1])
    IN  [name |-> FormatNodeDisplay(SenderId(packet), known),
         relay |-> rnode,
         candidates |-> [i \in 1..Len(candidates) |-> candidates[i].name]]

\* nothing echoed yet
NoLine == None

\* lines 158-161 of format_packet_details: the relay byte the debug formatter
\* resolves, read under the key relayNode and taken only when it is an int
FormatterRelayNode(packet) ==
    IF "relayNode" \in DOMAIN packet /\ "relayNode" \notin Malformed(packet)
    THEN Some(packet["relayNode"])
    ELSE None

\* lines 158-169: the relay byte and the candidate names of the Hops line
FormatterRelayLine(packet, known, table, localNum) ==
    LET relay_node == FormatterRelayNode(packet)
        candidates ==
            IF relay_node = None THEN <<>>
            ELSE FindRelayCandidates(table, localNum, known, relay_node[1])
    IN  [relay |-> relay_node,
         candidates |-> [i \in 1..Len(candidates) |->
                            FormatNodeDisplay(candidates[i].id, known)]]

\* lines 266-273: the arguments of sendData (BROADCAST_ADDR is "^all")
RouteDiscoveryProbe ==
    [data |-> "RouteDiscovery()", destinationId |-> "^all", portNum |-> "TRACEROUTE_APP",
     wantResponse |-> TRUE, hopLimit |-> 0]

\* no sendData yet
NoProbe == None

\* no method was called directly
NoCall == [op |-> "none"]

\* the newest record first
PrependRecord(nodes, record) == <<record>> \o nodes

\* the list rebound to the one new record, the earlier ones dropped
ReplaceRecords(nodes, record) == <<record>>

\* self.nearby_nodes.append(record)
AppendRecord(nodes, record) == Append(nodes, record)

(***************************************************************************)
(* State.                                                                  *)
(***************************************************************************)
VARIABLES
    interface_type,     \* self.interface_type
    device_path,        \* self.device_path
    interface,          \* self.interface: "None", or the state of the object it names
    openConns,          \* connection objects created and not closed
    nodesByNum,         \* interface.nodesByNum
    known_nodes,        \* self.known_nodes (absent = empty, line 72)
    nearby_nodes,       \* self.nearby_nodes
    discovery_active,   \* self.discovery_active
    subscribed,         \* the handler is a listener of meshtastic.receive.traceroute
    topicExists,        \* the bus holds the topic meshtastic.receive.traceroute
    pc,                 \* the controller's next statement
    duration,           \* the duration argument, in polls
    elapsed,            \* time.time() - start_time, in polls
    pending,            \* what the try statement will do once finally is through
    nearby_count,       \* line 286
    rows,               \* the rows printed, lines 301-326
    reported,           \* the last message echoed for the outcome
    outcome,            \* how the last call ended: "none", "returned", "raised"
    exc,                \* the exception that left the call
    result,             \* the sequence the call returned
    aliased,            \* the returned sequence is the list self.nearby_nodes names
    hpc,                \* the handler: "idle", or "body" once past the gate
    hpkt,               \* the packet the handler holds
    calls,              \* invocations so far
    delivered,          \* packets delivered so far
    arrivals,           \* history: the qualifying packets handled since line 259 last ran
    interruptedAt,      \* history: pc when this call was interrupted ("many": more than once)
    atInterrupt,        \* history: nearby_nodes when the interrupt arrived
    faultAt,            \* history: the step of this call that raised an Exception
    probes,             \* history: probes sent by this call
    connects,           \* history: connection attempts of this call
    connected,          \* history: connect() returned True in this call
    armed,              \* history: this call ran line 258
    subscribedThisCall, \* history: this call ran line 256
    echoed,             \* the handler's last "Nearby node discovered" line, lines 72-86
    handlerExc,         \* the exception that left the handler's last invocation
    probe,              \* the arguments of the last sendData, lines 267-273
    arrivedThisCall,    \* history: qualifying packets handled since this call began
    cleanupCut,         \* history: an interrupt left a call inside its finally block
    returned            \* the last direct call of a method and the value it returned

vars ==
    <<interface_type, device_path, interface, openConns, nodesByNum, known_nodes,
      nearby_nodes, discovery_active, subscribed, topicExists, pc, duration, elapsed,
      pending, nearby_count, rows, reported, outcome, exc, result, aliased, hpc, hpkt,
      calls, delivered, arrivals, interruptedAt,
      atInterrupt, faultAt, probes, connects, connected, armed,
      subscribedThisCall, echoed, handlerExc, probe, arrivedThisCall, cleanupCut,
      returned>>

\* the defaults of __init__'s arguments, line 20
DefaultInterfaceType == "auto"

DefaultDevicePath == NoAddress

\* (interface_type, device_path) as the constructor was given them
Configs ==
    {<<DefaultInterfaceType, DefaultDevicePath>>,
     <<"auto", <<"a","n","y">>>>,
     <<"invalid", NoAddress>>}

\* __init__, lines 20-27, with arguments of configs
InitWith(configs) ==
    /\ \E c \in configs : interface_type = c[1] /\ device_path = c[2]
    /\ interface = "None"
    /\ openConns = 0
    /\ nodesByNum = <<>>
    /\ known_nodes = <<>>
    /\ nearby_nodes = <<>>
    /\ discovery_active = FALSE
    /\ subscribed = FALSE
    /\ topicExists = FALSE
    /\ pc = "idle"
    /\ duration = 0
    /\ elapsed = 0
    /\ pending = "none"
    /\ nearby_count = 0
    /\ rows = <<>>
    /\ reported = "none"
    /\ outcome = "none"
    /\ exc = "none"
    /\ result = <<>>
    /\ aliased = FALSE
    /\ hpc = "idle"
    /\ hpkt = PktRaw
    /\ calls = 0
    /\ delivered = 0
    /\ arrivals = <<>>
    /\ interruptedAt = "none"
    /\ atInterrupt = <<>>
    /\ faultAt = "none"
    /\ probes = 0
    /\ connects = 0
    /\ connected = FALSE
    /\ armed = FALSE
    /\ subscribedThisCall = FALSE
    /\ echoed = NoLine
    /\ handlerExc = "none"
    /\ probe = NoProbe
    /\ arrivedThisCall = 0
    /\ cleanupCut = FALSE
    /\ returned = NoCall

Init == InitWith(Configs)

(***************************************************************************)
(* The controller thread: discover_nearby_nodes, lines 243-344.            *)
(***************************************************************************)
\* the call returns seq; alias: seq is the list self.nearby_nodes
Returned(seq, alias) ==
    /\ pc' = "idle"
    /\ outcome' = "returned"
    /\ exc' = "none"
    /\ result' = seq
    /\ aliased' = alias
    /\ pending' = "none"
    /\ duration' = 0
    /\ elapsed' = 0

\* exception e leaves the call
Raised(e) ==
    /\ pc' = "idle"
    /\ outcome' = "raised"
    /\ exc' = e
    /\ result' = <<>>
    /\ aliased' = FALSE
    /\ pending' = "none"
    /\ duration' = 0
    /\ elapsed' = 0

Durations == (0 - 1)..MaxTicks

\* a caller invokes discover_nearby_nodes(duration)
Call(d) ==
    /\ pc = "idle"
    /\ calls < MaxCalls
    /\ pc' = "connect"
    /\ calls' = calls + 1
    /\ duration' = d
    /\ elapsed' = 0
    /\ pending' = "none"
    /\ nearby_count' = 0
    /\ rows' = <<>>
    /\ reported' = "none"
    /\ outcome' = "none"
    /\ exc' = "none"
    /\ result' = <<>>
    /\ aliased' = FALSE
    /\ interruptedAt' = "none"
    /\ atInterrupt' = <<>>
    /\ faultAt' = "none"
    /\ probes' = 0
    /\ connects' = 0
    /\ connected' = FALSE
    /\ armed' = FALSE
    /\ subscribedThisCall' = FALSE
    /\ arrivedThisCall' = 0
    /\ UNCHANGED <<echoed, handlerExc, probe, cleanupCut, returned,
                   interface_type, device_path, interface, openConns, nodesByNum, known_nodes,
                   nearby_nodes, discovery_active, subscribed, topicExists, hpc, hpkt, delivered,
                   arrivals>>

\* every interface type taken for one the program has a transport for
InterfaceTypesUnchecked == {"serial", "tcp", "ble", "invalid"}

\* the interface types connect() has a transport for, connection.py lines 25-37;
\* any other raises ValueError at line 39, caught at line 40
InterfaceTypes == {"serial", "tcp", "ble"}

\* connection.py connect, lines 20-42, and discover.py lines 31-34 and 245-246.
\* ok: the transport constructor returns an interface object.
Connect(ok) ==
    /\ pc = "connect"
    /\ connects' = connects + 1
    /\ IF interface_type = "auto" /\ DetectRaises(device_path)
       THEN /\ Raised("AttributeError")
            /\ UNCHANGED <<interface, openConns, nodesByNum, reported, faultAt>>
       ELSE LET t == IF interface_type = "auto"
                     THEN DetectInterfaceType(device_path)
                     ELSE interface_type
            IN  IF t \in InterfaceTypes /\ ok
                THEN /\ interface' = "open"
                     /\ openConns' = openConns + 1
                     /\ \E table \in Tables : nodesByNum' = table
                     /\ pc' = "waitForConfig"
                     /\ UNCHANGED <<reported, faultAt, outcome, exc, result, aliased, duration, elapsed, pending>>
                ELSE /\ interface' = "None"
                     /\ reported' = "Failed to connect"
                     /\ faultAt' = "connect"
                     /\ Returned(<<>>, FALSE)
                     /\ UNCHANGED <<openConns, nodesByNum>>
    /\ UNCHANGED <<echoed, handlerExc, probe, arrivedThisCall, cleanupCut, returned,
                   interface_type, device_path, known_nodes, nearby_nodes, discovery_active,
                   subscribed, topicExists, nearby_count, rows, hpc, hpkt, calls, delivered,
                   arrivals, interruptedAt, atInterrupt, probes, armed,
                   subscribedThisCall, connected>>

\* the result of waitForConfig not looked at: the session goes on
WaitForConfigUnchecked(ok) ==
    /\ pc = "waitForConfig"
    /\ IF ok
       THEN /\ reported' = "Connected"
            /\ connected' = TRUE
            /\ pc' = "snapshot"
            /\ UNCHANGED <<faultAt, outcome, exc, result, aliased, duration, elapsed, pending>>
       ELSE /\ reported' = "Failed to connect"
            /\ faultAt' = "waitForConfig"
            /\ pc' = "snapshot"
            /\ UNCHANGED <<connected, outcome, exc, result, aliased, pending, duration, elapsed>>
    /\ UNCHANGED <<echoed, handlerExc, probe, arrivedThisCall, cleanupCut, returned,
                   interface_type, device_path, interface, openConns, nodesByNum, known_nodes,
                   nearby_nodes, discovery_active, subscribed, topicExists, nearby_count, rows,
                   hpc, hpkt, calls, delivered, arrivals, interruptedAt,
                   atInterrupt, probes, connects, armed, subscribedThisCall>>

\* lines 35-41 and 245-246.  ok: waitForConfig returns.
WaitForConfig(ok) ==
    /\ pc = "waitForConfig"
    /\ IF ok
       THEN /\ reported' = "Connected"
            /\ connected' = TRUE
            /\ pc' = "snapshot"
            /\ UNCHANGED <<faultAt, outcome, exc, result, aliased, duration, elapsed, pending>>
       ELSE /\ reported' = "Failed to connect"
            /\ faultAt' = "waitForConfig"
            /\ Returned(<<>>, FALSE)
            /\ UNCHANGED connected
    /\ UNCHANGED <<echoed, handlerExc, probe, arrivedThisCall, cleanupCut, returned,
                   interface_type, device_path, interface, openConns, nodesByNum, known_nodes,
                   nearby_nodes, discovery_active, subscribed, topicExists, nearby_count, rows,
                   hpc, hpkt, calls, delivered, arrivals, interruptedAt,
                   atInterrupt, probes, connects, armed, subscribedThisCall>>

\* a table that cannot be read taken as no known peers: the session goes on
SnapshotTolerant(ok) ==
    /\ pc = "snapshot"
    /\ ok \/ nodesByNum # <<>>
    /\ IF ok
       THEN /\ known_nodes' = GetKnownNodes(nodesByNum, LocalNum)
            /\ pc' = "subscribe"
            /\ UNCHANGED faultAt
       ELSE /\ faultAt' = "snapshot"
            /\ pc' = "subscribe"
            /\ known_nodes' = <<>>
    /\ UNCHANGED <<echoed, handlerExc, probe, arrivedThisCall, cleanupCut, returned,
                   interface_type, device_path, interface, openConns, nodesByNum, nearby_nodes,
                   discovery_active, subscribed, topicExists, duration, elapsed, pending,
                   nearby_count, rows, reported, outcome, exc, result, aliased, hpc, hpkt, calls,
                   delivered, arrivals, interruptedAt, atInterrupt, probes,
                   connects, armed, subscribedThisCall, connected>>

\* lines 249-253.  ok: reading the node table raises nothing (a table that is
\* None or empty is not read at all, line 108).
Snapshot(ok) ==
    /\ pc = "snapshot"
    /\ ok \/ nodesByNum # <<>>
    /\ IF ok
       THEN /\ known_nodes' = GetKnownNodes(nodesByNum, LocalNum)
            /\ pc' = "subscribe"
            /\ UNCHANGED faultAt
       ELSE /\ faultAt' = "snapshot"
            /\ pc' = "except_Exception"
            /\ UNCHANGED known_nodes
    /\ UNCHANGED <<echoed, handlerExc, probe, arrivedThisCall, cleanupCut, returned,
                   interface_type, device_path, interface, openConns, nodesByNum, nearby_nodes,
                   discovery_active, subscribed, topicExists, duration, elapsed, pending,
                   nearby_count, rows, reported, outcome, exc, result, aliased, hpc, hpkt, calls,
                   delivered, arrivals, interruptedAt, atInterrupt, probes,
                   connects, armed, subscribedThisCall, connected>>

\* line 256
Subscribe ==
    /\ pc = "subscribe"
    /\ subscribed' = TRUE
    /\ topicExists' = TRUE
    /\ subscribedThisCall' = TRUE
    /\ pc' = "arm"
    /\ UNCHANGED <<echoed, handlerExc, probe, arrivedThisCall, cleanupCut, returned,
                   interface_type, device_path, interface, openConns, nodesByNum, known_nodes,
                   nearby_nodes, discovery_active, duration, elapsed, pending, nearby_count,
                   rows, reported, outcome, exc, result, aliased, hpc, hpkt, calls, delivered,
                   arrivals, interruptedAt, atInterrupt, faultAt, probes,
                   connects, armed, connected>>

\* line 258 left out: the probe goes out before the flag is set
ArmFlagNotSet ==
    /\ pc = "arm"
    /\ UNCHANGED discovery_active
    /\ armed' = TRUE
    /\ pc' = "clear"
    /\ UNCHANGED <<echoed, handlerExc, probe, arrivedThisCall, cleanupCut, returned,
                   interface_type, device_path, interface, openConns, nodesByNum, known_nodes,
                   nearby_nodes, subscribed, topicExists, duration, elapsed, pending,
                   nearby_count, rows, reported, outcome, exc, result, aliased, hpc, hpkt, calls,
                   delivered, arrivals, interruptedAt, atInterrupt, faultAt,
                   probes, connects, subscribedThisCall, connected>>

\* line 258
Arm ==
    /\ pc = "arm"
    /\ discovery_active' = TRUE
    /\ armed' = TRUE
    /\ pc' = "clear"
    /\ UNCHANGED <<echoed, handlerExc, probe, arrivedThisCall, cleanupCut, returned,
                   interface_type, device_path, interface, openConns, nodesByNum, known_nodes,
                   nearby_nodes, subscribed, topicExists, duration, elapsed, pending,
                   nearby_count, rows, reported, outcome, exc, result, aliased, hpc, hpkt, calls,
                   delivered, arrivals, interruptedAt, atInterrupt, faultAt,
                   probes, connects, subscribedThisCall, connected>>

\* line 259
Clear ==
    /\ pc = "clear"
    /\ nearby_nodes' = <<>>
    /\ arrivals' = <<>>
    /\ pc' = "send"
    /\ UNCHANGED <<echoed, handlerExc, probe, arrivedThisCall, cleanupCut, returned,
                   interface_type, device_path, interface, openConns, nodesByNum, known_nodes,
                   discovery_active, subscribed, topicExists, duration, elapsed, pending,
                   nearby_count, rows, reported, outcome, exc, result, aliased, hpc, hpkt, calls,
                   delivered, interruptedAt, atInterrupt, faultAt, probes, connects,
                   armed, subscribedThisCall, connected>>

\* sendData outside the try statement: its exception leaves the call
SendProbeUncaught(ok) ==
    /\ pc = "send"
    /\ IF ok
       THEN /\ probes' = probes + 1
            /\ probe' = Some(RouteDiscoveryProbe)
            /\ elapsed' = 0
            /\ pc' = "wait"
            /\ UNCHANGED <<faultAt, duration, pending, outcome, exc, result, aliased>>
       ELSE /\ faultAt' = "send"
            /\ Raised("Exception")
            /\ UNCHANGED <<probes, probe>>
    /\ UNCHANGED <<echoed, handlerExc, arrivedThisCall, cleanupCut, returned,
                   interface_type, device_path, interface, openConns, nodesByNum, known_nodes,
                   nearby_nodes, discovery_active, subscribed, topicExists,
                   nearby_count, rows, reported, hpc, hpkt, calls,
                   delivered, arrivals, interruptedAt, atInterrupt, connects,
                   armed, subscribedThisCall, connected>>

\* sendData sent again after the first send
SendProbeRetry(ok) ==
    /\ pc = "send"
    /\ IF ok
       THEN /\ probes' = probes + 2
            /\ probe' = Some(RouteDiscoveryProbe)
            /\ elapsed' = 0
            /\ pc' = "wait"
            /\ UNCHANGED faultAt
       ELSE /\ faultAt' = "send"
            /\ pc' = "except_Exception"
            /\ UNCHANGED <<probes, probe, elapsed>>
    /\ UNCHANGED <<echoed, handlerExc, arrivedThisCall, cleanupCut, returned,
                   interface_type, device_path, interface, openConns, nodesByNum, known_nodes,
                   nearby_nodes, discovery_active, subscribed, topicExists, duration, pending,
                   nearby_count, rows, reported, outcome, exc, result, aliased, hpc, hpkt, calls,
                   delivered, arrivals, interruptedAt, atInterrupt, connects,
                   armed, subscribedThisCall, connected>>

\* lines 265-279.  ok: sendData returns.
SendProbe(ok) ==
    /\ pc = "send"
    /\ IF ok
       THEN /\ probes' = probes + 1
            /\ probe' = Some(RouteDiscoveryProbe)
            /\ elapsed' = 0
            /\ pc' = "wait"
            /\ UNCHANGED faultAt
       ELSE /\ faultAt' = "send"
            /\ pc' = "except_Exception"
            /\ UNCHANGED <<probes, probe, elapsed>>
    /\ UNCHANGED <<echoed, handlerExc, arrivedThisCall, cleanupCut, returned,
                   interface_type, device_path, interface, openConns, nodesByNum, known_nodes,
                   nearby_nodes, discovery_active, subscribed, topicExists, duration, pending,
                   nearby_count, rows, reported, outcome, exc, result, aliased, hpc, hpkt, calls,
                   delivered, arrivals, interruptedAt, atInterrupt, connects,
                   armed, subscribedThisCall, connected>>

\* lines 280-281, one turn of the loop.  ok: the turn raises nothing.
Poll(ok) ==
    /\ pc = "wait"
    /\ elapsed < duration
    /\ IF ok
       THEN /\ elapsed' = elapsed + 1
            /\ UNCHANGED <<pc, faultAt>>
       ELSE /\ faultAt' = "wait"
            /\ pc' = "except_Exception"
            /\ UNCHANGED elapsed
    /\ UNCHANGED <<echoed, handlerExc, probe, arrivedThisCall, cleanupCut, returned,
                   interface_type, device_path, interface, openConns, nodesByNum, known_nodes,
                   nearby_nodes, discovery_active, subscribed, topicExists, duration, pending,
                   nearby_count, rows, reported, outcome, exc, result, aliased, hpc, hpkt, calls,
                   delivered, arrivals, interruptedAt, atInterrupt, probes,
                   connects, armed, subscribedThisCall, connected>>

\* the loop never ends
WindowElapsedStuck ==
    /\ pc = "wait"
    /\ ~(elapsed < duration)
    /\ UNCHANGED vars

\* the loop left at any turn, whatever time has passed
WindowElapsedEarly ==
    /\ pc = "wait"
    /\ pc' = "disarm"
    /\ UNCHANGED <<echoed, handlerExc, probe, arrivedThisCall, cleanupCut, returned,
                   interface_type, device_path, interface, openConns, nodesByNum, known_nodes,
                   nearby_nodes, discovery_active, subscribed, topicExists, duration, elapsed,
                   pending, nearby_count, rows, reported, outcome, exc, result, aliased, hpc,
                   hpkt, calls, delivered, arrivals, interruptedAt, atInterrupt,
                   faultAt, probes, connects, armed, subscribedThisCall, connected>>

\* line 280, the loop ends
WindowElapsed ==
    /\ pc = "wait"
    /\ ~(elapsed < duration)
    /\ pc' = "disarm"
    /\ UNCHANGED <<echoed, handlerExc, probe, arrivedThisCall, cleanupCut, returned,
                   interface_type, device_path, interface, openConns, nodesByNum, known_nodes,
                   nearby_nodes, discovery_active, subscribed, topicExists, duration, elapsed,
                   pending, nearby_count, rows, reported, outcome, exc, result, aliased, hpc,
                   hpkt, calls, delivered, arrivals, interruptedAt, atInterrupt,
                   faultAt, probes, connects, armed, subscribedThisCall, connected>>

\* line 283
Disarm ==
    /\ pc = "disarm"
    /\ discovery_active' = FALSE
    /\ pc' = "count"
    /\ UNCHANGED <<echoed, handlerExc, probe, arrivedThisCall, cleanupCut, returned,
                   interface_type, device_path, interface, openConns, nodesByNum, known_nodes,
                   nearby_nodes, subscribed, topicExists, duration, elapsed, pending,
                   nearby_count, rows, reported, outcome, exc, result, aliased, hpc, hpkt, calls,
                   delivered, arrivals, interruptedAt, atInterrupt, faultAt,
                   probes, connects, armed, subscribedThisCall, connected>>

\* lines 286-289
Count ==
    /\ pc = "count"
    /\ nearby_count' = Len(nearby_nodes)
    /\ reported' = "Discovery complete"
    /\ pc' = "rows"
    /\ UNCHANGED <<echoed, handlerExc, probe, arrivedThisCall, cleanupCut, returned,
                   interface_type, device_path, interface, openConns, nodesByNum, known_nodes,
                   nearby_nodes, discovery_active, subscribed, topicExists, duration, elapsed,
                   pending, rows, outcome, exc, result, aliased, hpc, hpkt, calls, delivered,
                   arrivals, interruptedAt, atInterrupt, faultAt, probes,
                   connects, armed, subscribedThisCall, connected>>

\* lines 290-328
Rows ==
    /\ pc = "rows"
    /\ rows' = nearby_nodes
    /\ pc' = "return"
    /\ UNCHANGED <<echoed, handlerExc, probe, arrivedThisCall, cleanupCut, returned,
                   interface_type, device_path, interface, openConns, nodesByNum, known_nodes,
                   nearby_nodes, discovery_active, subscribed, topicExists, duration, elapsed,
                   pending, nearby_count, reported, outcome, exc, result, aliased, hpc, hpkt,
                   calls, delivered, arrivals, interruptedAt, atInterrupt,
                   faultAt, probes, connects, armed, subscribedThisCall, connected>>

\* line 330
Return ==
    /\ pc = "return"
    /\ pending' = "records"
    /\ pc' = "finally"
    /\ UNCHANGED <<echoed, handlerExc, probe, arrivedThisCall, cleanupCut, returned,
                   interface_type, device_path, interface, openConns, nodesByNum, known_nodes,
                   nearby_nodes, discovery_active, subscribed, topicExists, duration, elapsed,
                   nearby_count, rows, reported, outcome, exc, result, aliased, hpc, hpkt, calls,
                   delivered, arrivals, interruptedAt, atInterrupt, faultAt,
                   probes, connects, armed, subscribedThisCall, connected>>

TryBody ==
    {"snapshot", "subscribe", "arm", "clear", "send", "wait", "disarm", "count", "rows", "return"}

Handlers == {"except_KeyboardInterrupt", "except_Exception"}

\* the user interrupts: KeyboardInterrupt is raised in the controller thread at
\* the statement it is about to run.  Inside the try body the handler of line 332
\* takes it; inside a handler the finally block runs and it goes on; anywhere
\* else (connect, lines 245 and 29-41; the finally block) it leaves the call.
Interrupt ==
    /\ pc # "idle"
    /\ interruptedAt' = IF interruptedAt = "none" THEN pc ELSE "many"
    /\ atInterrupt' = IF interruptedAt = "none" THEN nearby_nodes ELSE atInterrupt
    /\ cleanupCut' = (cleanupCut \/ pc \in {"finally", "finally_unsubscribe", "finally_close"})
    /\ IF pc \in TryBody
       THEN /\ pc' = "except_KeyboardInterrupt"
            /\ UNCHANGED <<pending, outcome, exc, result, aliased, duration, elapsed>>
       ELSE IF pc \in Handlers
       THEN /\ pending' = "raise"
            /\ pc' = "finally"
            /\ UNCHANGED <<outcome, exc, result, aliased, duration, elapsed>>
       ELSE Raised("KeyboardInterrupt")
    /\ UNCHANGED <<echoed, handlerExc, probe, arrivedThisCall, returned,
                   interface_type, device_path, interface, openConns, nodesByNum, known_nodes,
                   nearby_nodes, discovery_active, subscribed, topicExists, nearby_count, rows,
                   reported, hpc, hpkt, calls, delivered, arrivals, faultAt,
                   probes, connects, armed, subscribedThisCall, connected>>

\* the interrupt handler returning [] as the Exception handler does
ExceptKeyboardInterruptEmpty ==
    /\ pc = "except_KeyboardInterrupt"
    /\ reported' = "Discovery interrupted by user"
    /\ pending' = "empty"
    /\ pc' = "finally"
    /\ UNCHANGED <<echoed, handlerExc, probe, arrivedThisCall, cleanupCut, returned,
                   interface_type, device_path, interface, openConns, nodesByNum, known_nodes,
                   nearby_nodes, discovery_active, subscribed, topicExists, duration, elapsed,
                   nearby_count, rows, outcome, exc, result, aliased, hpc, hpkt, calls,
                   delivered, arrivals, interruptedAt, atInterrupt, faultAt,
                   probes, connects, armed, subscribedThisCall, connected>>

\* lines 332-334
ExceptKeyboardInterrupt ==
    /\ pc = "except_KeyboardInterrupt"
    /\ reported' = "Discovery interrupted by user"
    /\ pending' = "records"
    /\ pc' = "finally"
    /\ UNCHANGED <<echoed, handlerExc, probe, arrivedThisCall, cleanupCut, returned,
                   interface_type, device_path, interface, openConns, nodesByNum, known_nodes,
                   nearby_nodes, discovery_active, subscribed, topicExists, duration, elapsed,
                   nearby_count, rows, outcome, exc, result, aliased, hpc, hpkt, calls,
                   delivered, arrivals, interruptedAt, atInterrupt, faultAt,
                   probes, connects, armed, subscribedThisCall, connected>>

\* the Exception handler sending the probe again instead of ending the session
ExceptExceptionRetry ==
    /\ pc = "except_Exception"
    /\ reported' = "Error during interactive discovery"
    /\ pc' = "send"
    /\ UNCHANGED <<echoed, handlerExc, probe, arrivedThisCall, cleanupCut, returned,
                   interface_type, device_path, interface, openConns, nodesByNum, known_nodes,
                   nearby_nodes, discovery_active, subscribed, topicExists, duration, elapsed,
                   pending, nearby_count, rows, outcome, exc, result, aliased, hpc, hpkt, calls,
                   delivered, arrivals, interruptedAt, atInterrupt, faultAt,
                   probes, connects, armed, subscribedThisCall, connected>>

\* lines 335-337
ExceptException ==
    /\ pc = "except_Exception"
    /\ reported' = "Error during interactive discovery"
    /\ pending' = "empty"
    /\ pc' = "finally"
    /\ UNCHANGED <<echoed, handlerExc, probe, arrivedThisCall, cleanupCut, returned,
                   interface_type, device_path, interface, openConns, nodesByNum, known_nodes,
                   nearby_nodes, discovery_active, subscribed, topicExists, duration, elapsed,
                   nearby_count, rows, outcome, exc, result, aliased, hpc, hpkt, calls,
                   delivered, arrivals, interruptedAt, atInterrupt, faultAt,
                   probes, connects, armed, subscribedThisCall, connected>>

\* the finally block without line 339
FinallyFlagSkipped ==
    /\ pc = "finally"
    /\ pc' = "finally_unsubscribe"
    /\ UNCHANGED <<echoed, handlerExc, probe, arrivedThisCall, cleanupCut, returned,
                   interface_type, device_path, interface, openConns, nodesByNum, known_nodes,
                   nearby_nodes, discovery_active, subscribed, topicExists, duration, elapsed,
                   pending, nearby_count, rows, reported, outcome, exc, result, aliased, hpc,
                   hpkt, calls, delivered, arrivals, interruptedAt, atInterrupt, faultAt,
                   probes, connects, armed, subscribedThisCall, connected>>

\* line 339
FinallyFlag ==
    /\ pc = "finally"
    /\ discovery_active' = FALSE
    /\ pc' = "finally_unsubscribe"
    /\ UNCHANGED <<echoed, handlerExc, probe, arrivedThisCall, cleanupCut, returned,
                   interface_type, device_path, interface, openConns, nodesByNum, known_nodes,
                   nearby_nodes, subscribed, topicExists, duration, elapsed, pending,
                   nearby_count, rows, reported, outcome, exc, result, aliased, hpc, hpkt, calls,
                   delivered, arrivals, interruptedAt, atInterrupt, faultAt,
                   probes, connects, armed, subscribedThisCall, connected>>

\* lines 340-342: pub.unsubscribe looks the topic up by name and raises
\* TopicNameError when the bus holds no such topic (no subscribe created it)
FinallyUnsubscribe ==
    /\ pc = "finally_unsubscribe"
    /\ IF topicExists
       THEN /\ subscribed' = FALSE
            /\ pc' = "finally_close"
            /\ UNCHANGED <<outcome, exc, result, aliased, duration, elapsed, pending>>
       ELSE /\ Raised("TopicNameError")
            /\ UNCHANGED subscribed
    /\ UNCHANGED <<echoed, handlerExc, probe, arrivedThisCall, cleanupCut, returned,
                   interface_type, device_path, interface, openConns, nodesByNum, known_nodes,
                   nearby_nodes, discovery_active, topicExists, nearby_count, rows, reported,
                   hpc, hpkt, calls, delivered, arrivals, interruptedAt,
                   atInterrupt, faultAt, probes, connects, armed, subscribedThisCall, connected>>

\* lines 343-344, then the return or raise the try statement held back
FinallyClose ==
    /\ pc = "finally_close"
    /\ IF interface = "open"
       THEN /\ interface' = "closed"
            /\ openConns' = openConns - 1
       ELSE UNCHANGED <<interface, openConns>>
    /\ IF pending = "records" THEN Returned(nearby_nodes, TRUE)
       ELSE IF pending = "empty" THEN Returned(<<>>, FALSE)
       ELSE Raised("KeyboardInterrupt")
    /\ UNCHANGED <<echoed, handlerExc, probe, arrivedThisCall, cleanupCut, returned,
                   interface_type, device_path, nodesByNum, known_nodes, nearby_nodes,
                   discovery_active, subscribed, topicExists, nearby_count, rows, reported, hpc,
                   hpkt, calls, delivered, arrivals, interruptedAt, atInterrupt,
                   faultAt, probes, connects, armed, subscribedThisCall, connected>>

(***************************************************************************)
(* The transport thread: on_traceroute_response, lines 43-103.             *)
(***************************************************************************)
\* the handler without its gate on discovery_active
HandlerGateUngated(packet) ==
    /\ hpc = "idle"
    /\ subscribed
    /\ delivered < MaxMsgs
    /\ delivered' = delivered + 1
    /\ hpc' = "body"
    /\ hpkt' = packet
    /\ UNCHANGED <<echoed, handlerExc, probe, arrivedThisCall, cleanupCut, returned,
                   interface_type, device_path, interface, openConns, nodesByNum, known_nodes,
                   nearby_nodes, discovery_active, subscribed, topicExists, pc, duration,
                   elapsed, pending, nearby_count, rows, reported, outcome, exc, result, aliased,
                   calls, arrivals, interruptedAt, atInterrupt, faultAt, probes,
                   connects, armed, subscribedThisCall, connected>>

\* the bus calls the handler with a packet; lines 45-46
HandlerGate(packet) ==
    /\ hpc = "idle"
    /\ subscribed
    /\ delivered < MaxMsgs
    /\ delivered' = delivered + 1
    /\ IF ~discovery_active
       THEN UNCHANGED <<hpc, hpkt>>
       ELSE /\ hpc' = "body"
            /\ hpkt' = packet
    /\ UNCHANGED <<echoed, handlerExc, probe, arrivedThisCall, cleanupCut, returned,
                   interface_type, device_path, interface, openConns, nodesByNum, known_nodes,
                   nearby_nodes, discovery_active, subscribed, topicExists, pc, duration,
                   elapsed, pending, nearby_count, rows, reported, outcome, exc, result, aliased,
                   calls, arrivals, interruptedAt, atInterrupt, faultAt, probes,
                   connects, armed, subscribedThisCall, connected>>

\* lines 48-103
HandlerBody ==
    /\ hpc = "body"
    /\ hpc' = "idle"
    /\ hpkt' = PktRaw
    /\ IF IsTraceroute(hpkt) /\ HandlerException(hpkt) = "none"
       THEN /\ echoed' = Some(DiscoveryLine(hpkt, known_nodes, nodesByNum, LocalNum))
            /\ nearby_nodes' = AppendRecord(nearby_nodes, MakeRecord(hpkt))
            /\ arrivals' = Append(arrivals, hpkt)
            /\ result' = IF aliased THEN nearby_nodes' ELSE result
            /\ arrivedThisCall' = arrivedThisCall + 1
            /\ handlerExc' = "none"
       ELSE /\ handlerExc' = IF IsTraceroute(hpkt) THEN HandlerException(hpkt) ELSE "none"
            /\ UNCHANGED <<echoed, nearby_nodes, arrivals, arrivedThisCall, result>>
    /\ UNCHANGED <<probe, cleanupCut, returned,
                   interface_type, device_path, interface, openConns, nodesByNum, known_nodes,
                   discovery_active, subscribed, topicExists, pc, duration, elapsed, pending,
                   nearby_count, rows, reported, outcome, exc, aliased, calls, delivered,
                   interruptedAt, atInterrupt, faultAt, probes, connects, armed,
                   subscribedThisCall, connected>>

Next ==
    \/ \E d \in Durations : Call(d)
    \/ \E ok \in BOOLEAN : Connect(ok)
    \/ \E ok \in BOOLEAN : WaitForConfig(ok)
    \/ \E ok \in BOOLEAN : Snapshot(ok)
    \/ Subscribe
    \/ Arm
    \/ Clear
    \/ \E ok \in BOOLEAN : SendProbe(ok)
    \/ \E ok \in BOOLEAN : Poll(ok)
    \/ WindowElapsed
    \/ Disarm
    \/ Count
    \/ Rows
    \/ Return
    \/ Interrupt
    \/ ExceptKeyboardInterrupt
    \/ ExceptException
    \/ FinallyFlag
    \/ FinallyUnsubscribe
    \/ FinallyClose
    \/ \E packet \in Packets : HandlerGate(packet)
    \/ HandlerBody

Spec == Init /\ [][Next]_vars

\* a step of the controller thread inside a call
ControllerStep ==
    \/ \E ok \in BOOLEAN : Connect(ok)
    \/ \E ok \in BOOLEAN : WaitForConfig(ok)
    \/ \E ok \in BOOLEAN : Snapshot(ok)
    \/ Subscribe
    \/ Arm
    \/ Clear
    \/ \E ok \in BOOLEAN : SendProbe(ok)
    \/ \E ok \in BOOLEAN : Poll(ok)
    \/ WindowElapsed
    \/ Disarm
    \/ Count
    \/ Rows
    \/ Return
    \/ ExceptKeyboardInterrupt
    \/ ExceptException
    \/ FinallyFlag
    \/ FinallyUnsubscribe
    \/ FinallyClose

\* the controller thread keeps running: the interpreter executes the next
\* statement of a call in progress, every call it makes returns or raises, and
\* the clock of the wait loop advances (time.sleep(0.5) returns)
\* the traffic of the runs checked for termination: a response and another packet
FairPackets == {PktAlpha, PktText}

FairNext ==
    \/ \E d \in Durations : calls < MaxFairCalls /\ Call(d)
    \/ ControllerStep
    \/ Interrupt
    \/ \E packet \in FairPackets : HandlerGate(packet)
    \/ HandlerBody

FairSpec == Init /\ [][FairNext]_vars /\ WF_vars(ControllerStep)

(***************************************************************************)
(* The methods called directly, as src/tests/test_discover.py calls them:  *)
(* on an instance whose interface is a connected transport with a given    *)
(* node table and whose discovery_active was set to True.                  *)
(***************************************************************************)
\* what no direct call touches
unitFrame ==
    <<interface_type, device_path, interface, openConns, nodesByNum, discovery_active,
      subscribed, topicExists, pc, duration, elapsed, pending, nearby_count, rows, reported,
      outcome, exc, result, aliased, hpc, calls, arrivals, arrivedThisCall,
      interruptedAt, atInterrupt, faultAt, probes, connects, connected, armed,
      subscribedThisCall, probe, cleanupCut>>

UnitInit ==
    /\ interface_type = "auto"
    /\ device_path = NoAddress
    /\ interface = "open"
    /\ openConns = 1
    /\ nodesByNum \in TableInputs
    /\ known_nodes = <<>>
    /\ nearby_nodes = <<>>
    /\ discovery_active = TRUE
    /\ subscribed = FALSE
    /\ topicExists = FALSE
    /\ pc = "idle"
    /\ duration = 0
    /\ elapsed = 0
    /\ pending = "none"
    /\ nearby_count = 0
    /\ rows = <<>>
    /\ reported = "none"
    /\ outcome = "none"
    /\ exc = "none"
    /\ result = <<>>
    /\ aliased = FALSE
    /\ hpc = "idle"
    /\ hpkt = PktRaw
    /\ calls = 0
    /\ delivered = 0
    /\ arrivals = <<>>
    /\ interruptedAt = "none"
    /\ atInterrupt = <<>>
    /\ faultAt = "none"
    /\ probes = 0
    /\ connects = 0
    /\ connected = FALSE
    /\ armed = FALSE
    /\ subscribedThisCall = FALSE
    /\ echoed = NoLine
    /\ handlerExc = "none"
    /\ probe = NoProbe
    /\ arrivedThisCall = 0
    /\ cleanupCut = FALSE
    /\ returned = NoCall

\* self.known_nodes = self.get_known_nodes(), lines 250-253
UnitGetKnownNodes ==
    /\ delivered = 0
    /\ known_nodes' = GetKnownNodes(nodesByNum, LocalNum)
    /\ returned' = [op |-> "get_known_nodes", value |-> known_nodes']
    /\ UNCHANGED <<nearby_nodes, echoed, handlerExc, delivered, hpkt>>
    /\ UNCHANGED unitFrame

\* self.find_relay_candidates(b)
UnitFindRelayCandidates(b) ==
    /\ delivered = 0
    /\ returned' = [op |-> "find_relay_candidates", arg |-> b,
                    value |-> FindRelayCandidates(nodesByNum, LocalNum, known_nodes, b)]
    /\ UNCHANGED <<known_nodes, nearby_nodes, echoed, handlerExc, delivered, hpkt>>
    /\ UNCHANGED unitFrame

\* self.format_node_display(node_id, self.known_nodes)
UnitFormatNodeDisplay(node_id) ==
    /\ delivered = 0
    /\ returned' = [op |-> "format_node_display", arg |-> node_id,
                    value |-> FormatNodeDisplay(node_id, known_nodes)]
    /\ UNCHANGED <<known_nodes, nearby_nodes, echoed, handlerExc, delivered, hpkt>>
    /\ UNCHANGED unitFrame

\* self.on_traceroute_response(packet, interface), lines 43-103 in one call
UnitOnTracerouteResponse(packet) ==
    /\ returned.op \in {"none", "get_known_nodes"}
    /\ delivered < MaxMsgs
    /\ Len(nearby_nodes) < MaxRecords
    /\ delivered' = delivered + 1
    /\ hpkt' = packet
    /\ IF discovery_active /\ IsTraceroute(packet) /\ HandlerException(packet) = "none"
       THEN /\ echoed' = Some(DiscoveryLine(packet, known_nodes, nodesByNum, LocalNum))
            /\ nearby_nodes' = AppendRecord(nearby_nodes, MakeRecord(packet))
            /\ handlerExc' = "none"
       ELSE /\ handlerExc' = IF discovery_active /\ IsTraceroute(packet)
                              THEN HandlerException(packet) ELSE "none"
            /\ UNCHANGED <<echoed, nearby_nodes>>
    /\ UNCHANGED <<known_nodes, returned>>
    /\ UNCHANGED unitFrame

UnitNext ==
    \/ UnitGetKnownNodes
    \/ \E b \in RelayBytes : UnitFindRelayCandidates(b)
    \/ \E node_id \in DisplayIds : UnitFormatNodeDisplay(node_id)
    \/ \E packet \in UnitPackets : UnitOnTracerouteResponse(packet)

UnitSpec == UnitInit /\ [][UnitNext]_vars

(***************************************************************************)
(* The resolver during the listening window: the snapshot is taken, the    *)
(* transport goes on updating interface.nodesByNum as node information     *)
(* arrives, and find_relay_candidates is called for a relay byte.          *)
(***************************************************************************)
\* the node tables one update away: a peer gained (a new key goes last), a
\* peer lost, a peer now heard directly (its hopsAway set to 0)
NodeDbUpdates(table) ==
    {Append(table, n) : n \in {m \in NodePool :
                                 \A i \in 1..Len(table) : table[i].node_num # m.node_num}}
    \cup {SubSeq(table, 1, i - 1) \o SubSeq(table, i + 1, Len(table)) : i \in 1..Len(table)}
    \cup {[table EXCEPT ![i].node = [hopsAway |-> 0] @@ table[i].node] : i \in 1..Len(table)}

\* the transport's reader thread updates interface.nodesByNum, the table lines
\* 222-223 iterate, once the snapshot of line 250 is taken
UpdateNodeDb ==
    /\ returned.op = "get_known_nodes"
    /\ delivered < MaxUpdates
    /\ delivered' = delivered + 1
    /\ \E table \in NodeDbUpdates(nodesByNum) : nodesByNum' = table
    /\ UNCHANGED <<interface_type, device_path, interface, openConns, known_nodes,
                   nearby_nodes, discovery_active, subscribed, topicExists, pc, duration,
                   elapsed, pending, nearby_count, rows, reported, outcome, exc, result,
                   aliased, hpc, hpkt, calls, arrivals, interruptedAt, atInterrupt, faultAt,
                   probes, connects, connected, armed, subscribedThisCall, echoed,
                   handlerExc, probe, arrivedThisCall, cleanupCut, returned>>

\* self.find_relay_candidates(b), line 81, on the snapshot and the table as they
\* are by then
LiveFindRelayCandidates(b) ==
    /\ returned.op = "get_known_nodes"
    /\ returned' = [op |-> "find_relay_candidates", arg |-> b,
                    value |-> FindRelayCandidates(nodesByNum, LocalNum, known_nodes, b)]
    /\ UNCHANGED <<known_nodes, nearby_nodes, echoed, handlerExc, delivered, hpkt>>
    /\ UNCHANGED unitFrame

LiveNext ==
    \/ UnitGetKnownNodes
    \/ UpdateNodeDb
    \/ \E b \in RelayBytes : LiveFindRelayCandidates(b)

LiveSpec == UnitInit /\ [][LiveNext]_vars

(***************************************************************************)
(* detect_interface_type called directly on an address.                    *)
(***************************************************************************)
\* the characters of the generated addresses: one of each kind the function
\* tells apart
AddressChars == {"/", "d", "7", ".", ":", "-", "_"}

\* addresses as users give them
AddressExamples ==
    {<<"/","d","e","v","/","t","t","y","U","S","B","0">>,
     <<"1","9","2",".","1","6","8",".","1",".","5">>,
     <<"m","e","s","h","t","a","s","t","i","c",".","l","o","c","a","l">>,
     <<"0","1",":","2","3",":","4","5",":","6","7",":","8","9",":","A","B">>,
     <<"a","n","y">>,
     <<"M","e","s","h","t","a","s","t","i","c","_","1","a","2","b">>,
     <<"m","y","n","o","d","e">>,
     <<"1",".","2",".","3">>}

AddressInputs ==
    AddressExamples \cup UNION {[1..n -> AddressChars] : n \in 0..MaxAddress}

\* detect_interface_type(address), connection.py lines 9-18
DetectCall(address) ==
    /\ returned' = [op |-> "detect_interface_type", arg |-> address,
                    value |-> DetectInterfaceType(address)]
    /\ UNCHANGED <<known_nodes, nearby_nodes, echoed, handlerExc, delivered, hpkt>>
    /\ UNCHANGED unitFrame

DetectNext == \E address \in AddressInputs : DetectCall(address)

DetectSpec == Init /\ [][DetectNext]_vars

(***************************************************************************)
(* list_nodes.py: NodeLister.show_known_nodes, lines 49-101, with the      *)
(* connect of lines 17-47.  The fields of NodeLister have the names of the *)
(* discoverer's (interface, interface_type, device_path); rows holds the   *)
(* numbered lines echoed.  A time is a number of seconds, an SNR a number  *)
(* of hundredths of a dB.                                                  *)
(***************************************************************************)
\* peers as the node table of the transport holds them
ListedRecent ==
    [node_num |-> 168496141,
     node |-> [user |-> [id |-> "!0a0b0c0d", longName |-> "Alpha Base"],
               snr |-> 550, lastHeard |-> 300]]

ListedOld == [node_num |-> 269, node |-> [user |-> [id |-> "!0000010d"], lastHeard |-> 100]]

\* heard at the same time as ListedRecent
ListedTie == [node_num |-> 525, node |-> [snr |-> 0, lastHeard |-> 300]]

\* never heard: no lastHeard
ListedSilent == [node_num |-> 781, node |-> [user |-> [id |-> "!0000030d", longName |-> "Quiet"]]]

\* a lastHeard of 0
ListedZero == [node_num |-> 1037, node |-> [user |-> [longName |-> "Zero"], lastHeard |-> 0]]

ListNodePool == {NodeLocal, ListedRecent, ListedOld, ListedTie, ListedSilent, ListedZero}

\* the node tables of at most MaxTable entries
ListTables ==
    {t \in UNION {[1..n -> ListNodePool] : n \in 0..MaxTable} :
        \A i, j \in 1..Len(t) : i # j => t[i].node_num # t[j].node_num}

\* lines 58-74: the entries collected, in the table's order, the local node
\* skipped
RECURSIVE ListEntries(_, _)
ListEntries(table, localNum) ==
    IF table = <<>> THEN <<>>
    ELSE LET e == Head(table)
             user == Get(e.node, "user", [x \in {} |-> ""])
             entry == [id |-> Get(user, "id", NodeIdOf(e.node_num)),
                       name |-> Get(user, "longName", "Unknown"),
                       snr |-> IF "snr" \in DOMAIN e.node THEN Some(e.node.snr) ELSE None,
                       last_heard |-> IF "lastHeard" \in DOMAIN e.node
                                      THEN Some(e.node.lastHeard) ELSE None,
                       num |-> e.node_num]
         IN  IF e.node_num = localNum
             THEN ListEntries(Tail(table), localNum)
             ELSE <<entry>> \o ListEntries(Tail(table), localNum)

\* line 78: x['last_heard'] or 0
SortKey(x) == IF x.last_heard = None THEN 0 ELSE x.last_heard[1]

\* the entries left in the table's order
SortedUnsorted(entries) == entries

\* line 79: list.sort(key=sort_key, reverse=True), which is stable: entries
\* of equal key keep the order they had
RECURSIVE SortedByLastHeard(_)
SortedByLastHeard(entries) ==
    IF entries = <<>> THEN <<>>
    ELSE LET n == Len(entries)
             x == entries[n]
             before == SortedByLastHeard(SubSeq(entries, 1, n - 1))
             k == Cardinality({i \in 1..Len(before) : SortKey(before[i]) >= SortKey(x)})
         IN  SubSeq(before, 1, k) \o <<x>> \o SubSeq(before, k + 1, Len(before))

\* lines 81-93: the lines echoed for the sorted entries, numbered from 1; a
\* last_heard or an snr that is falsy (None or 0) is shown as Unknown
ListRows(sorted) ==
    [i \in 1..Len(sorted) |->
        [index |-> i, id |-> sorted[i].id, name |-> sorted[i].name, num |-> sorted[i].num,
         snr |-> IF sorted[i].snr \in {None, Some(0)} THEN None ELSE sorted[i].snr,
         last_heard |-> IF sorted[i].last_heard \in {None, Some(0)}
                        THEN None ELSE sorted[i].last_heard]]

\* what show_known_nodes never touches
listFrame ==
    <<interface_type, device_path, known_nodes, nearby_nodes, discovery_active, subscribed,
      topicExists, duration, elapsed, nearby_count, result, aliased, hpc, hpkt, delivered,
      arrivals, atInterrupt, probes, connects, armed, subscribedThisCall, echoed,
      handlerExc, probe, arrivedThisCall, cleanupCut, returned>>

\* (interface_type, device_path) given to NodeLister, lines 12-15 ('serial' is
\* the default)
ListConfigs == {<<"serial", NoAddress>>, <<"tcp", NoAddress>>, <<"invalid", NoAddress>>}

ListInit == InitWith(ListConfigs)

\* a caller invokes show_known_nodes()
ListCall ==
    /\ pc = "idle"
    /\ calls < MaxCalls
    /\ calls' = calls + 1
    /\ pc' = "list_connect"
    /\ rows' = <<>>
    /\ reported' = "none"
    /\ outcome' = "none"
    /\ exc' = "none"
    /\ pending' = "none"
    /\ connected' = FALSE
    /\ faultAt' = "none"
    /\ interruptedAt' = "none"
    /\ UNCHANGED <<interface, openConns, nodesByNum>>
    /\ UNCHANGED listFrame

\* lines 19-38 and 45-47, then 51-52.  ok: the transport constructor returns an
\* interface object; self.interface is assigned only then.
ListConnect(ok) ==
    /\ pc = "list_connect"
    /\ IF interface_type \in {"serial", "tcp"} /\ ok
       THEN /\ interface' = "open"
            /\ openConns' = openConns + 1
            /\ \E table \in ListTables : nodesByNum' = table
            /\ pc' = "list_waitForConfig"
            /\ UNCHANGED <<reported, faultAt, outcome>>
       ELSE /\ reported' = "Failed to connect"
            /\ faultAt' = "connect"
            /\ pc' = "idle"
            /\ outcome' = "returned"
            /\ UNCHANGED <<interface, openConns, nodesByNum>>
    /\ UNCHANGED <<calls, rows, exc, pending, connected, interruptedAt>>
    /\ UNCHANGED listFrame

\* lines 40-47, then 51-52.  ok: waitForConfig returns.
ListWaitForConfig(ok) ==
    /\ pc = "list_waitForConfig"
    /\ IF ok
       THEN /\ reported' = "Connected"
            /\ connected' = TRUE
            /\ pc' = "list_body"
            /\ UNCHANGED <<faultAt, outcome>>
       ELSE /\ reported' = "Failed to connect"
            /\ faultAt' = "waitForConfig"
            /\ pc' = "idle"
            /\ outcome' = "returned"
            /\ UNCHANGED connected
    /\ UNCHANGED <<calls, interface, openConns, nodesByNum, rows, exc, pending,
                   interruptedAt>>
    /\ UNCHANGED listFrame

\* lines 53-96.  ok: reading the node table raises nothing (a table that is
\* None or empty is not read at all, line 56).
ListBody(ok) ==
    /\ pc = "list_body"
    /\ ok \/ nodesByNum # <<>>
    /\ IF ok
       THEN /\ rows' = ListRows(SortedByLastHeard(ListEntries(nodesByNum, LocalNum)))
            /\ reported' = IF nodesByNum = <<>> THEN "Node database is empty"
                           ELSE IF rows' = <<>> THEN "No other nodes in database"
                           ELSE "Currently known nodes in database"
            /\ pc' = "list_finally"
            /\ UNCHANGED faultAt
       ELSE /\ faultAt' = "body"
            /\ pc' = "list_except"
            /\ UNCHANGED <<rows, reported>>
    /\ UNCHANGED <<calls, interface, openConns, nodesByNum, outcome, exc, pending,
                   connected, interruptedAt>>
    /\ UNCHANGED listFrame

\* lines 98-99
ListExcept ==
    /\ pc = "list_except"
    /\ reported' = "Error showing known nodes"
    /\ pc' = "list_finally"
    /\ UNCHANGED <<calls, interface, openConns, nodesByNum, rows, outcome, exc, pending,
                   connected, faultAt, interruptedAt>>
    /\ UNCHANGED listFrame

\* lines 100-101, then the return, or the raise the try statement held back
ListFinally ==
    /\ pc = "list_finally"
    /\ interface' = "closed"
    /\ openConns' = openConns - 1
    /\ pc' = "idle"
    /\ outcome' = IF pending = "raise" THEN "raised" ELSE "returned"
    /\ exc' = IF pending = "raise" THEN "KeyboardInterrupt" ELSE "none"
    /\ pending' = "none"
    /\ UNCHANGED <<calls, nodesByNum, rows, reported, connected, faultAt, interruptedAt>>
    /\ UNCHANGED listFrame

\* the user interrupts: inside the try statement (its body, line 98's handler)
\* KeyboardInterrupt goes through the finally block and then leaves the call;
\* in connect() and in the finally block itself it leaves the call at once
ListInterrupt ==
    /\ pc # "idle"
    /\ interruptedAt' = IF interruptedAt = "none" THEN pc ELSE "many"
    /\ IF pc \in {"list_body", "list_except"}
       THEN /\ pending' = "raise"
            /\ pc' = "list_finally"
            /\ UNCHANGED <<outcome, exc>>
       ELSE /\ pc' = "idle"
            /\ outcome' = "raised"
            /\ exc' = "KeyboardInterrupt"
            /\ pending' = "none"
    /\ UNCHANGED <<calls, interface, openConns, nodesByNum, rows, reported, connected,
                   faultAt>>
    /\ UNCHANGED listFrame

ListNext ==
    \/ ListCall
    \/ \E ok \in BOOLEAN : ListConnect(ok)
    \/ \E ok \in BOOLEAN : ListWaitForConfig(ok)
    \/ \E ok \in BOOLEAN : ListBody(ok)
    \/ ListExcept
    \/ ListFinally
    \/ ListInterrupt

ListSpec == ListInit /\ [][ListNext]_vars

(***************************************************************************)
(* The discover command, lines 347-370: one discoverer built from the      *)
(* options, on which discover_nearby_nodes is called once.                 *)
(***************************************************************************)
\* (--interface-type, --address) as click hands them over: the address is a
\* string always, "any" when the option is not given (connection.py lines 44-57)
CommandConfigs ==
    {<<"auto", <<"a","n","y">>>>,
     <<"invalid", <<"a","n","y">>>>,
     <<"auto", <<"/","d","e","v","/","x">>>>}

\* line 358
CommandInit == InitWith(CommandConfigs)

\* line 366, the one call of the command, and the two threads of the session
CommandNext ==
    \/ (calls = 0 /\ \E d \in Durations : Call(d))
    \/ ControllerStep
    \/ Interrupt
    \/ \E packet \in Packets : HandlerGate(packet)
    \/ HandlerBody

CommandSpec == CommandInit /\ [][CommandNext]_vars

\* lines 367-370, the last line the command echoes once the call has returned
CommandEcho ==
    IF result # <<>> THEN "Discovery completed successfully" ELSE "No nearby nodes found"

\* the status the process ends with: 0 once discover() has returned, 1 when an
\* exception leaves it
ExitCode == IF outcome = "raised" THEN 1 ELSE 0

(***************************************************************************)
(* Properties.                                                             *)
(***************************************************************************)
\* a call has ended
Done == pc = "idle" /\ calls > 0

\* the packets of a sequence of records
PacketsOf(records) == [i \in 1..Len(records) |-> records[i].packet]

IsPrefix(s, t) == Len(s) <= Len(t) /\ s = SubSeq(t, 1, Len(s))

\* the qualifying packets handled since line 259 last ran
SessionArrivals == arrivals

\* every step of the cleanup has run
CleanedUp == ~discovery_active /\ ~subscribed /\ interface = "closed"

\* C1: a packet delivered while discovery_active is false is dropped at the
\* gate: the handler returns at once and nearby_nodes is unchanged.
C1_InactiveHandlerAppendsNothing ==
    [][(delivered' = delivered + 1 /\ ~discovery_active)
         => (nearby_nodes' = nearby_nodes /\ hpc' = "idle")]_vars

\* C1 witness: in a first call the handler is subscribed and not yet armed, every
\* packet of the run has been delivered to it, and nothing was recorded.
C1_Witness ==
    /\ calls = 1
    /\ pc = "arm"
    /\ delivered = MaxMsgs
    /\ hpc = "idle"
    /\ nearby_nodes = <<>>

\* C2: when a call that connected ends without a user interrupt (normally, or
\* through an exception of a step of the session), discovery_active is false,
\* the handler is unsubscribed and the connection is closed.
C2_CleanupOnEveryExit ==
    (Done /\ connected /\ interruptedAt = "none") => (outcome = "returned" /\ CleanedUp)

\* C3: the step that sends the probe starts with the handler subscribed and
\* discovery_active true.
C3_ArmedBeforeProbe ==
    [][probes' = probes + 1 => (subscribed /\ discovery_active)]_vars

\* C3 witness: the probe is out and the window is open.
C3_Witness == pc = "wait" /\ probes = 1 /\ subscribed /\ discovery_active

\* C4: nearby_nodes holds, in arrival order, one record for each qualifying
\* packet handled since the list was last cleared, and a returned list is that
\* list.
C4_RecordsInArrivalOrder ==
    /\ PacketsOf(nearby_nodes) = SessionArrivals
    /\ (Done /\ aliased) => result = nearby_nodes

\* C4 witness: two responses of different senders, in either order of arrival.
C4_Witness ==
    \/ PacketsOf(nearby_nodes) = <<PktBare, PktAlpha>>
    \/ PacketsOf(nearby_nodes) = <<PktAlpha, PktBare>>

\* C5: a packet delivered while discovery_active is true reaches the body of the
\* handler, which appends exactly one record when the packet's protocol tag is
\* TRACEROUTE_APP and none when the tag is another one or is absent.
C5_OneRecordPerTraceroute ==
    [][/\ (delivered' = delivered + 1 /\ discovery_active) => hpc' = "body"
       /\ (hpc = "body" /\ hpc' = "idle") =>
             Len(nearby_nodes') = Len(nearby_nodes)
                 + (IF PortNum(hpkt) = "TRACEROUTE_APP" THEN 1 ELSE 0)]_vars

\* C5 witness: with the flag true one response was recorded and a packet with
\* another tag, or none, is in the handler.
C5_Witness ==
    /\ discovery_active
    /\ Len(nearby_nodes) = 1
    /\ hpc = "body"
    /\ PortNum(hpkt) # "TRACEROUTE_APP"

C7_ConnectFailureEndsCall ==
    (faultAt \in {"connect", "waitForConfig"}) =>
        /\ Done
        /\ outcome = "returned"
        /\ result = <<>>
        /\ reported = "Failed to connect"
        /\ ~subscribedThisCall
        /\ ~armed
        /\ probes = 0

\* C7 witness: waitForConfig raised on a connection object that was created.
C7_Witness == Done /\ faultAt = "waitForConfig" /\ interface = "open" /\ result = <<>>

\* C8: an Exception raised while the probe is sent or during the wait never
\* leaves the call: the call reports it and returns [] with the cleanup done,
\* unless the user interrupts the rest of the call.
C8_ListeningFaultIsCaught ==
    (Done /\ faultAt \in {"send", "wait"}) =>
        /\ exc \in {"none", "KeyboardInterrupt"}
        /\ interruptedAt = "none" =>
              /\ outcome = "returned"
              /\ result = <<>>
              /\ reported = "Error during interactive discovery"
              /\ CleanedUp

\* C8 witness: the wait raised after a record was collected; the call returned.
C8_Witness ==
    /\ Done
    /\ faultAt = "wait"
    /\ outcome = "returned"
    /\ Len(nearby_nodes) = 1

\* C9: a call the user does not interrupt returns a sequence, whichever step
\* fails.
C9_NoFaultEscapes ==
    (Done /\ interruptedAt = "none") => outcome = "returned"

\* C10 as claimed: a failure of the registry snapshot does not end the session
\* (the Exception handler of line 335 is not entered); the call still arms the
\* handler and sends the probe.
C10_SnapshotFailureTolerated ==
    faultAt = "snapshot" =>
        /\ pc # "except_Exception"
        /\ Done => (armed /\ probes = 1)

\* C10 amended: a failure of the registry snapshot ends the session: the handler
\* is not subscribed or armed, no probe is sent, and a call that returns has
\* reported the error and returns [].  Only a table that is None or empty is
\* taken as no known peers, the snapshot of it being empty and never failing.
C10_SnapshotFailureEndsSession ==
    /\ faultAt = "snapshot" =>
          /\ nodesByNum # <<>>
          /\ ~subscribedThisCall
          /\ ~armed
          /\ probes = 0
          /\ pc \in {"except_Exception", "finally", "finally_unsubscribe", "finally_close", "idle"}
          /\ (Done /\ outcome = "returned") =>
                (result = <<>> /\ reported = "Error during interactive discovery")
    /\ (pc = "subscribe" /\ nodesByNum = <<>>) => known_nodes = <<>>

\* C10 witness: in a second call the snapshot failed and the call returned [].
C10_Witness ==
    /\ Done
    /\ calls = 2
    /\ faultAt = "snapshot"
    /\ outcome = "returned"
    /\ result = <<>>

\* the state of the session the controller is in: Connecting is connect() (line
\* 245), Listening the try body up to the end of the wait (lines 248-281),
\* Completed what follows it (line 283 on, the handlers and the finally block)
\* and the end of a call that had connected, Failed the end of one that had not
SessionState ==
    IF pc = "idle"
    THEN IF calls = 0 THEN "Idle" ELSE IF connected THEN "Completed" ELSE "Failed"
    ELSE IF pc \in {"connect", "waitForConfig"} THEN "Connecting"
    ELSE IF pc \in {"snapshot", "subscribe", "arm", "clear", "send", "wait"} THEN "Listening"
    ELSE "Completed"

\* C11: within one invocation the session only moves Connecting -> Listening ->
\* Completed or Connecting -> Failed, so no state is entered twice; Connecting is
\* entered only by an invocation; Listening is entered only with connect() having
\* succeeded, and its wait only with the handler subscribed, discovery_active
\* true and the one probe sent.
C11_SessionTransitions ==
    [][/\ \/ SessionState' = SessionState
          \/ /\ calls' = calls + 1
             /\ SessionState \in {"Idle", "Completed", "Failed"}
             /\ SessionState' = "Connecting"
          \/ /\ calls' = calls
             /\ <<SessionState, SessionState'>> \in
                   {<<"Connecting", "Listening">>, <<"Listening", "Completed">>,
                    <<"Connecting", "Failed">>}
       /\ SessionState' = "Listening" => connected'
       /\ pc' = "wait" => (subscribed' /\ discovery_active' /\ probes' = 1)]_vars

\* C11 witness: a second invocation on the instance went through Connecting and
\* Listening to Completed: it sent its probe, closed its connection and ended.
C11_Witness ==
    /\ calls = 2
    /\ SessionState = "Completed"
    /\ pc = "idle"
    /\ probes = 1
    /\ interface = "closed"
    /\ openConns = 0

\* C12: the snapshot get_known_nodes returns has no entry with the local node's
\* number, has one entry for every other peer of the table, under the peer's id
\* (the textual id, else "!" and the number in 8 hex digits) and with its names,
\* and has no other entry.
C12_SnapshotExcludesLocal ==
    returned.op = "get_known_nodes" =>
        LET known == returned.value
            peers == {j \in 1..Len(nodesByNum) : nodesByNum[j].node_num # LocalNum}
        IN  /\ \A i \in 1..Len(known) : known[i].node_num # LocalNum
            /\ \A j \in peers :
                  \E i \in 1..Len(known) :
                      /\ known[i].node_num = nodesByNum[j].node_num
                      /\ known[i].id =
                            IF "user" \in DOMAIN nodesByNum[j].node
                            THEN nodesByNum[j].node.user.id
                            ELSE NodeIdOf(nodesByNum[j].node_num)
            /\ Len(known) = Cardinality(peers)

\* C12 witness: a table of the local node and two peers gave a snapshot of the
\* two peers, one of them under a synthesized id.
C12_Witness ==
    /\ returned.op = "get_known_nodes"
    /\ Len(nodesByNum) = 3
    /\ \E j \in 1..Len(nodesByNum) : nodesByNum[j].node_num = LocalNum
    /\ Len(returned.value) = 2
    /\ KnownHas(returned.value, "!0000010d")

\* the entries of the live table that qualify as the relay with low byte b
Qualifying(b) ==
    {j \in 1..Len(nodesByNum) :
        /\ nodesByNum[j].node_num # LocalNum
        /\ "hopsAway" \in DOMAIN nodesByNum[j].node
        /\ nodesByNum[j].node.hopsAway = 0
        /\ nodesByNum[j].node_num % 256 = b}

\* C13: find_relay_candidates(b) returns exactly the peers of the table with
\* hopsAway 0 and low byte b, each once and in table order: none with another or
\* no hop count, the empty list when there is none, all of them when several.
C13_CandidatesExact ==
    returned.op = "find_relay_candidates" =>
        LET c == returned.value
            q == Qualifying(returned.arg)
        IN  /\ Len(c) = Cardinality(q)
            /\ {c[i].node_num : i \in 1..Len(c)} = {nodesByNum[j].node_num : j \in q}
            /\ \A i1, i2 \in 1..Len(c) :
                  i1 < i2 =>
                      \E j1, j2 \in q :
                          /\ j1 < j2
                          /\ nodesByNum[j1].node_num = c[i1].node_num
                          /\ nodesByNum[j2].node_num = c[i2].node_num

\* C13 witness: two peers at 0 hops share the relay byte 0x0d with a third entry
\* that is further away or of unknown hop count: both, and only they, are returned.
C13_Witness ==
    /\ returned.op = "find_relay_candidates"
    /\ returned.arg = 13
    /\ Len(nodesByNum) = 3
    /\ \A j \in 1..Len(nodesByNum) : nodesByNum[j].node_num % 256 = 13
    /\ Len(returned.value) = 2

\* the packet carries an SNR-towards series
HasSeries(packet) ==
    /\ "decoded" \in DOMAIN packet
    /\ "traceroute" \in DOMAIN packet.decoded
    /\ "snrTowards" \in DOMAIN packet.decoded.traceroute

\* C14: the snr_towards of a record is absent when the packet has no series or a
\* series of at most one sample, and is the last sample divided by 4.0 (here 25
\* hundredths of a dB per quarter dB) when the series has more than one sample;
\* the series [0, 48] gives 12.0 dB.
C14_SnrTowardsLastSample ==
    \A i \in 1..Len(nearby_nodes) :
        LET r == nearby_nodes[i]
        IN  /\ IF HasSeries(r.packet) /\ Len(r.packet.decoded.traceroute.snrTowards) > 1
               THEN LET series == r.packet.decoded.traceroute.snrTowards
                    IN  r.snr_towards = <<series[Len(series)] * 25>>
               ELSE r.snr_towards = <<>>
            /\ r.packet = PktAlpha => r.snr_towards = <<1200>>

\* C14 witness: the record of a series of three samples, -7 and 20 after the
\* placeholder, holds 5.0 dB.
C14_Witness ==
    /\ Len(nearby_nodes) = 1
    /\ nearby_nodes[1].packet = PktQuiet
    /\ nearby_nodes[1].snr_towards = <<500>>

\* the display identity of node_id against a snapshot, as C15 states it
DisplayIdentity(node_id, known) ==
    LET found == {i \in 1..Len(known) : known[i].id = node_id}
    IN  IF found = {} THEN {node_id}
        ELSE {CASE known[i].short_name # "" /\ known[i].long_name # "" ->
                       "[" \o known[i].short_name \o "] " \o known[i].long_name
                [] known[i].short_name = "" /\ known[i].long_name # "" -> known[i].long_name
                [] known[i].short_name # "" /\ known[i].long_name = "" ->
                       "[" \o known[i].short_name \o "]"
                [] OTHER -> node_id : i \in found}

\* C15: format_node_display gives "[shortName] longName" for a sender of the
\* snapshot with both names, the long name or "[shortName]" when it has one of
\* them, and the raw id when it has neither or is not in the snapshot; the handler
\* echoes that identity for the sender of a response; "!0a0b0c0d" known as AB,
\* Alpha Base reads "[AB] Alpha Base".
C15_DisplayIdentity ==
    /\ returned.op = "format_node_display" =>
          /\ DisplayIdentity(returned.arg, known_nodes) = {returned.value}
          /\ (returned.arg = "!0a0b0c0d" /\ KnownHas(known_nodes, "!0a0b0c0d")) =>
                returned.value = "[AB] Alpha Base"
    /\ (echoed # NoLine /\ nearby_nodes # <<>>) =>
          DisplayIdentity(nearby_nodes[Len(nearby_nodes)].id, known_nodes) = {echoed[1].name}

\* C15 witness: the response of "!0a0b0c0d" was echoed as "[AB] Alpha Base".
C15_Witness ==
    /\ nearby_nodes # <<>>
    /\ nearby_nodes[1].id = "!0a0b0c0d"
    /\ echoed # NoLine
    /\ echoed[1].name = "[AB] Alpha Base"

\* C16: the handler raises for no qualifying packet, whichever fields are absent
\* or wrongly shaped, and the record of a packet holds the defaults of the fields
\* it lacks: the id "!" and 8 hex digits of from (0 if absent), snr and rssi
\* "Unknown", snr_towards absent.
C16_HandlerToleratesMalformed ==
    /\ handlerExc = "none"
    /\ \A i \in 1..Len(nearby_nodes) :
          LET r == nearby_nodes[i]
          IN  /\ "fromId" \notin DOMAIN r.packet =>
                    r.id = NodeIdOf(IF "from" \in DOMAIN r.packet THEN r.packet["from"] ELSE 0)
              /\ "rxSnr" \notin DOMAIN r.packet => r.snr = <<>>
              /\ "rxRssi" \notin DOMAIN r.packet => r.rssi = <<>>
              /\ ~HasSeries(r.packet) => r.snr_towards = <<>>

\* C17: a call makes at most one connection attempt and at most one sendData,
\* and none without a connection; a connected call that reaches the wait, or
\* ends with no step raising and no interrupt, has sent exactly one probe; the
\* probe goes to the broadcast address on TRACEROUTE_APP with an empty
\* RouteDiscovery, hop limit 0 and a response wanted.
C17_OneConnectOneProbe ==
    /\ connects <= 1
    /\ probes <= 1
    /\ probes = 1 => connected
    /\ (connected /\ pc \in {"wait", "disarm", "count", "rows", "return"}) => probes = 1
    /\ (Done /\ connected /\ faultAt = "none" /\ interruptedAt = "none") => probes = 1
    /\ probes = 1 =>
          /\ probe # NoProbe
          /\ probe[1].destinationId = "^all"
          /\ probe[1].portNum = "TRACEROUTE_APP"
          /\ probe[1].data = "RouteDiscovery()"
          /\ probe[1].hopLimit = 0
          /\ probe[1].wantResponse

\* C17 witness: a second call on the instance connected once, sent one probe,
\* waited a poll and ended.
C17_Witness ==
    /\ Done
    /\ calls = 2
    /\ connects = 1
    /\ probes = 1
    /\ outcome = "returned"
    /\ faultAt = "none"
    /\ interruptedAt = "none"

\* C18: the sequence a call returns holds only records of packets handled since
\* that call began, so it is never longer than their number (stated for the runs
\* in which every finally block ran to its end and the call was interrupted at
\* most once).
C18_FreshResultPerCall ==
    (Done /\ outcome = "returned" /\ ~cleanupCut /\ interruptedAt # "many") =>
        Len(result) <= arrivedThisCall

\* C19: discovery_active is false whenever no call is in progress, unless an
\* interrupt took a call out of its finally block.
C19_FlagFalseOutsideCall ==
    (pc = "idle" /\ ~cleanupCut) => ~discovery_active

\* C19 witness: a call that had set the flag ended through the Exception handler,
\* and the flag is false.
C19_Witness ==
    /\ Done
    /\ armed
    /\ faultAt = "send"
    /\ ~cleanupCut
    /\ ~discovery_active

\* C20: every call ends, whatever its duration; and once the duration has elapsed
\* in the wait loop of a call not interrupted so far, then, unless an interrupt
\* comes, the call ends with discovery_active false, the handler unsubscribed,
\* the connection closed and the list of records returned.
C20_Terminates ==
    /\ (pc # "idle") ~> (pc = "idle")
    /\ (pc = "wait" /\ ~(elapsed < duration) /\ interruptedAt = "none")
          ~> \/ interruptedAt # "none"
             \/ /\ Done
                /\ outcome = "returned"
                /\ CleanedUp
                /\ aliased
                /\ result = nearby_nodes

\* C20 witness: a call with a negative duration ended, cleaned up, with the
\* record that arrived before the loop was tested.
C20_Witness ==
    /\ Done
    /\ outcome = "returned"
    /\ interruptedAt = "none"
    /\ faultAt = "none"
    /\ CleanedUp
    /\ Len(result) = 1
    /\ nearby_count = 1

\* C21: with an interface type the program has no transport for, connect()
\* returns no connection object and raises nothing: the call reports the
\* failure and returns [] (unless the user interrupts it first), and no handler
\* is subscribed, no flag armed and no probe sent.
C21_InvalidTypeFailsClosed ==
    interface_type \notin {"auto", "serial", "tcp", "ble"} =>
        /\ interface = "None"
        /\ openConns = 0
        /\ outcome = "raised" => interruptedAt = "connect"
        /\ ~subscribed /\ ~subscribedThisCall
        /\ ~discovery_active /\ ~armed
        /\ probes = 0 /\ probe = NoProbe
        /\ pc \in {"idle", "connect"}
        /\ (Done /\ interruptedAt = "none") =>
              (outcome = "returned" /\ result = <<>>
                  /\ reported = "Failed to connect" /\ faultAt = "connect")

\* C21 witness: a discoverer of interface type 'invalid' was asked to discover
\* and the call ended at the connection step.
C21_Witness ==
    /\ interface_type = "invalid"
    /\ Done
    /\ connects = 1
    /\ interface = "None"
    /\ outcome = "returned"

\* C22: a call that was not interrupted and ended without a connection
\* (whatever the constructor's arguments were, the defaults included) raised
\* nothing: connect() returned False, the failure was reported and the call
\* returned [].
C22_ConnectFailureReturnsFalse ==
    (Done /\ ~connected /\ interruptedAt = "none") =>
        /\ outcome = "returned"
        /\ exc = "none"
        /\ reported = "Failed to connect"
        /\ result = <<>>

\* C23: a discoverer constructed with no arguments, before anything is called on
\* it, has interface None, nearby_nodes empty, discovery_active False,
\* interface_type 'serial' and device_path None.
C23_DefaultConstruction ==
    (calls = 0 /\ delivered = 0
        /\ <<interface_type, device_path>> = <<DefaultInterfaceType, DefaultDevicePath>>) =>
        /\ interface = "None"
        /\ nearby_nodes = <<>>
        /\ ~discovery_active
        /\ interface_type = "serial"
        /\ device_path = NoAddress

\* C24: the discover command calls discover_nearby_nodes once and, unless the
\* user interrupts it, ends with exit code 0 whatever happened in the session:
\* an empty result and every failure are reported as text.
C24_CommandExitsZero ==
    (Done /\ interruptedAt = "none") =>
        /\ calls = 1
        /\ ExitCode = 0
        /\ result = <<>> => CommandEcho = "No nearby nodes found"

\* C25: a call that completes normally returns what it reported: the count it
\* echoed and the rows it printed are the returned sequence, no record being
\* appended after the controller cleared discovery_active and read the list.
C25_CountMatchesResult ==
    (Done /\ outcome = "returned" /\ connected
          /\ interruptedAt = "none" /\ faultAt = "none") =>
        /\ nearby_count = Len(result)
        /\ rows = result

\* C26: the first call on an instance, completing normally, returns a record
\* for every qualifying packet the handler accepted during the call, a packet
\* delivered between line 258 and line 259 included.
C26_NoAcceptedResponseLost ==
    (Done /\ calls = 1 /\ outcome = "returned" /\ connected
          /\ interruptedAt = "none" /\ faultAt = "none") =>
        Len(result) = arrivedThisCall

\* C27: when a call the user did not interrupt has ended, no connection object
\* it created is left open, whether waitForConfig failed on it or the cleanup
\* failed at the unsubscription.
C27_ConnectionsClosed ==
    (Done /\ interruptedAt = "none") => (openConns = 0 /\ interface # "open")

\* C28: in a call with no interrupt and no exception, the handler is subscribed
\* and discovery_active is true at every turn of the wait loop, and the step
\* that leaves the loop is taken when the elapsed time has reached the
\* duration and is less than one poll beyond it (the loop is left at once when
\* the duration is not positive).
C28_WindowOpenForDuration ==
    /\ []((pc = "wait" /\ interruptedAt = "none" /\ faultAt = "none")
            => (discovery_active /\ subscribed /\ elapsed <= duration + 1
                   /\ (elapsed > 0 => elapsed <= duration)))
    /\ [][(pc = "wait" /\ pc' = "disarm")
            => (elapsed >= duration /\ (elapsed = duration \/ elapsed = 0))]_vars

\* C28 witness: the longest window was waited out, poll after poll, and the flag
\* was then cleared.
C28_Witness ==
    /\ pc = "count"
    /\ duration = MaxTicks
    /\ elapsed = duration
    /\ ~discovery_active
    /\ subscribed
    /\ interruptedAt = "none" /\ faultAt = "none"

\* C29: a step of the handler leaves the constructor's arguments, the
\* connection, the flag discovery_active and the snapshot known_nodes as they
\* were.  A packet rejected at the gate, or having another protocol tag,
\* leaves nearby_nodes as it was; a TRACEROUTE_APP packet adds one record at the
\* end of nearby_nodes, the records before it unchanged.
C29_HandlerChangesOnlyTail ==
    [][(delivered' = delivered + 1 \/ (hpc = "body" /\ hpc' = "idle")) =>
          /\ discovery_active' = discovery_active
          /\ known_nodes' = known_nodes
          /\ UNCHANGED <<interface_type, device_path, interface, nodesByNum, subscribed>>
          /\ IF hpc = "body" /\ IsTraceroute(hpkt)
             THEN /\ Len(nearby_nodes') = Len(nearby_nodes) + 1
                  /\ SubSeq(nearby_nodes', 1, Len(nearby_nodes)) = nearby_nodes
                  /\ nearby_nodes'[Len(nearby_nodes')].packet = hpkt
             ELSE nearby_nodes' = nearby_nodes]_vars

\* C29 witness: with the flag true and a snapshot that knows a peer, two
\* different responses were recorded one after the other.
C29_Witness ==
    /\ discovery_active
    /\ KnownHas(known_nodes, "!0a0b0c0d")
    /\ hpc = "idle"
    /\ Len(nearby_nodes) = 2
    /\ nearby_nodes[1].packet # nearby_nodes[2].packet

\* the place of node_id in the snapshot's iteration order
SnapshotPosition(known, node_id) == CHOOSE i \in 1..Len(known) : known[i].id = node_id

\* C30: whatever the transport did to its node table after the snapshot was
\* taken, every candidate find_relay_candidates returns is a peer of the
\* snapshot and the candidates follow the snapshot's iteration order.
C30_CandidatesFromSnapshot ==
    returned.op = "find_relay_candidates" =>
        LET candidates == returned.value
        IN  /\ \A i \in 1..Len(candidates) : KnownHas(known_nodes, candidates[i].id)
            /\ \A i, j \in 1..Len(candidates) :
                  (i < j /\ KnownHas(known_nodes, candidates[i].id)
                         /\ KnownHas(known_nodes, candidates[j].id)) =>
                      SnapshotPosition(known_nodes, candidates[i].id)
                          < SnapshotPosition(known_nodes, candidates[j].id)

\* C31: for the response last recorded, the relay byte of the handler's
\* "Nearby node discovered" line and the candidates named on it are the relay
\* byte and the candidates the debug formatter resolves for the same packet:
\* both present and equal for a packet with a relay field, both absent for one
\* without.
C31_HandlerResolvesRelayByte ==
    (Len(nearby_nodes) > 0 /\ echoed # NoLine) =>
        LET packet == nearby_nodes[Len(nearby_nodes)].packet
            hops == FormatterRelayLine(packet, known_nodes, nodesByNum, LocalNum)
        IN  /\ echoed[1].relay = hops.relay
            /\ echoed[1].candidates = hops.candidates

HexDigits == Digits \cup {"a","b","c","d","e","f","A","B","C","D","E","F"}

\* six pairs of hex digits with colons between, as 01:23:45:67:89:AB
IsBleMac(a) ==
    /\ Len(a) = 17
    /\ \A i \in 1..17 : IF i % 3 = 0 THEN a[i] = ":" ELSE a[i] \in HexDigits

\* a name with a dot in it and no character a hostname cannot have
IsDottedName(a) ==
    /\ MatchesHostname(a)
    /\ \E i \in 1..Len(a) : a[i] = "."

\* C32: detect_interface_type gives one of serial, tcp, ble for every address:
\* serial for a path under /dev/, tcp for a dotted IPv4 address or a dotted
\* host name, ble for a BLE MAC address and for the default address "any".
C32_DetectBySyntax ==
    returned.op = "detect_interface_type" =>
        LET a == returned.arg
            t == returned.value
        IN  /\ t \in {"serial", "tcp", "ble"}
            /\ StartsWith(a, <<"/","d","e","v","/">>) => t = "serial"
            /\ (~StartsWith(a, <<"/","d","e","v","/">>)
                   /\ (MatchesIPv4(a) \/ IsDottedName(a))) => t = "tcp"
            /\ IsBleMac(a) => t = "ble"
            /\ a = <<"a","n","y">> => t = "ble"

\* the peers of a table: its node numbers but the local node's
PeerNums(table) == {table[i].node_num : i \in 1..Len(table)} \ {LocalNum}

\* C33: a call of show_known_nodes that connected and read the table echoes one
\* line for each peer of the table and none for the local node, numbered from
\* 1, a later last-heard time never below an earlier one and the peers shown
\* without a last-heard time after all the others; it reports an empty
\* database for an empty table; and a call that connected has closed the
\* connection when it ends, by return, by an exception or by an interrupt that
\* arrived inside the try statement.
C33_ListsPeersByLastHeard ==
    /\ (pc \in {"list_finally", "idle"} /\ connected /\ faultAt = "none"
           /\ interruptedAt \in {"none", "list_finally"}) =>
          /\ {rows[i].num : i \in 1..Len(rows)} = PeerNums(nodesByNum)
          /\ Len(rows) = Cardinality(PeerNums(nodesByNum))
          /\ \A i \in 1..Len(rows) : rows[i].index = i
          /\ \A i, j \in 1..Len(rows) :
                i < j =>
                  /\ rows[i].last_heard = None => rows[j].last_heard = None
                  /\ (rows[i].last_heard # None /\ rows[j].last_heard # None) =>
                        rows[i].last_heard[1] >= rows[j].last_heard[1]
          /\ (nodesByNum = <<>>) <=> (reported = "Node database is empty")
    /\ (Done /\ connected /\ interruptedAt \in {"none", "list_body", "list_except"}) =>
          interface = "closed"

\* C33 witness: three peers were listed in another order than the table's, one
\* of them never heard and shown last, and the connection is closed.
C33_Witness ==
    /\ Done
    /\ outcome = "returned"
    /\ Len(rows) = 3
    /\ rows[1].last_heard # None
    /\ rows[3].last_heard = None
    /\ rows[1].num # nodesByNum[1].node_num
    /\ interface = "closed"
====
